---- MODULE Spec2Model ----
(***************************************************************************)
(* Churn-prediction training pipeline (AIML_1013_Project1).                *)
(*                                                                         *)
(* The model follows pipeline/training_pipeline.py and the six components  *)
(* it drives.  State: the local directory tree (one content per fixed      *)
(* path), the object stored at the registry key in remote storage, the     *)
(* document collection, the position of run_pipeline and the artifacts it  *)
(* holds.                                                                  *)
(*                                                                         *)
(* Modelling conventions.                                                  *)
(*  - Scores (F1, best_score) are integers in tenths: 6 stands for 0.6.    *)
(*  - A data frame is its row count and its set of column names.           *)
(*  - Every call into a library (pymongo, pandas, sklearn, boto3, dill,    *)
(*    evidently, neuro_mf) and every artifact-record constructor is a step *)
(*    that may raise; which one raises is the input "fail" of the stage.   *)
(*    The sources import the artifact classes from three module paths      *)
(*    (AIML_1013_Project1.entity.artifact_entity, AIML_1013_Project1.      *)
(*    artifact_entity, telco_churn.entity.artifact_entity) and the keyword *)
(*    arguments at data_validation.py:335 and model_evaluation.py:177 are  *)
(*    not the field names of entity/artifact_entity.py, so a constructor   *)
(*    call either binds or raises TypeError depending on the class bound   *)
(*    at run time; both outcomes are behaviours of the model.              *)
(*  - Class names TelcoData/project1Data, TelcoEstimator/project1Estimator *)
(*    and TelcoModel/project1Model name the same classes.                  *)
(***************************************************************************)
EXTENDS Integers, Sequences, FiniteSets, TLC

(* ----------------------------- bounds ---------------------------------- *)
MaxCalls == 2

MaxRows == 3

MaxScore == 10

MaxConstructions == 3

MaxPredicts == 3

\* the run number of a second, concurrent run (the first counts from 1 to MaxCalls)
OtherRunId == MaxCalls + 1

(* ------------------------ program constants ---------------------------- *)
\* MODEL_TRAINER_EXPECTED_SCORE = 0.6, in tenths
MODEL_TRAINER_EXPECTED_SCORE == 6

\* DATA_INGESTION_TRAIN_TEST_SPLIT_RATIO = 0.2 = 1 / 5
TRAIN_TEST_SPLIT_RATIO_DEN == 5

TARGET_COLUMN == "Churn"

Scores == 0..MaxScore

(* Fixed local paths (constants/__init__.py) and the registry key.         *)
Paths ==
  {"feature_store", "train", "test", "drift_report",
   "preprocessor", "train_arr", "test_arr", "model"}

Stages ==
  <<"ingestion", "validation", "transformation",
    "training", "evaluation", "publishing">>

(* External configuration config/schema.yaml: the declared columns and the *)
(* required numerical and categorical columns.                             *)
SchemaColumns == {"tenure", "Contract", "Churn"}

SchemaNumericalColumns == {"tenure"}

SchemaCategoricalColumns == {"Contract"}

(* Column sets of the documents a collection may hold.                     *)
CollectionShapes ==
  { {"_id", "tenure", "Contract", "Churn"},
    {"_id", "tenure", "Churn"},
    {"_id", "tenure", "Contract", "Churn", "gender"} }

(* ------------------------------ errors --------------------------------- *)
NoErr == [kind |-> "none", root |-> "none", file |-> "none", line |-> 0, msg |-> <<>>]

PlainErr(kind, msg) ==
  [kind |-> kind, root |-> kind, file |-> "none", line |-> 0, msg |-> msg]

(* custom_exception(e, sys): one error kind; the message carries the file  *)
(* and line of the handling frame and str(e).                              *)
custom_exception(e, file, line) ==
  [kind |-> "custom_exception", root |-> e.root, file |-> file, line |-> line, msg |-> e.msg]

(* A catch event: which handler caught which kind and what it did with it. *)
CatchEvent(handler, e, outcome) ==
  [handler |-> handler, caught |-> e.kind, outcome |-> outcome]

(* try: ... except Exception as e: raise custom_exception(e, sys)          *)
Rewrap_passthrough(r, handler, file, line) == r

Rewrap(r, handler, file, line) ==
  IF r.ok THEN r
  ELSE [r EXCEPT !.err = custom_exception(r.err, file, line),
                 !.ev = r.ev \cup {CatchEvent(handler, r.err, "custom_exception")}]

\* the same handler, when the raising statement's line is carried by the result
RewrapAt(r, handler, file) == Rewrap(r, handler, file, r.line)

(* ---------------------------- data frames ------------------------------ *)
Frame(rows, cols) == [rows |-> rows, cols |-> cols]

\* pandas DataFrame.empty: any axis of length 0
DataFrameEmpty_always_false(df) == FALSE

DataFrameEmpty(df) == df.rows = 0 \/ df.cols = {}

Absent == [kind |-> "absent"]

Csv(df, part, r) == [kind |-> "csv", rows |-> df.rows, cols |-> df.cols, part |-> part, run |-> r]

Obj(kind, r) == [kind |-> kind, run |-> r]

(* ---------------------------- ingestion -------------------------------- *)
(* mongo_extract.py: find all documents, frame them, drop _id.             *)
export_collection_as_dataframe_keeping_id(coll, fail) ==
  IF fail = "find"
  THEN Rewrap([ok |-> FALSE, df |-> Frame(0, {}), err |-> PlainErr("PyMongoError", <<>>),
               ev |-> {}],
              "export_collection_as_dataframe", "mongo_extract.py", 49)
  ELSE [ok |-> TRUE, df |-> IF coll.rows = 0 THEN Frame(0, {}) ELSE Frame(coll.rows, coll.cols),
        err |-> NoErr, ev |-> {}]

export_collection_as_dataframe(coll, fail) ==
  LET raw == IF coll.rows = 0 THEN Frame(0, {}) ELSE Frame(coll.rows, coll.cols)
      df  == IF DataFrameEmpty(raw) THEN raw
             ELSE IF "_id" \in raw.cols THEN Frame(raw.rows, raw.cols \ {"_id"})
             ELSE raw
      r   == IF fail = "find"
             THEN [ok |-> FALSE, df |-> Frame(0, {}), err |-> PlainErr("PyMongoError", <<>>), ev |-> {}]
             ELSE [ok |-> TRUE, df |-> df, err |-> NoErr, ev |-> {}]
  IN Rewrap(r, "export_collection_as_dataframe", "mongo_extract.py", 49)

(* data_ingestion.py: export to the feature store file.                    *)
export_data_into_feature_store(fs, coll, fail, r) ==
  LET store(got) ==
        IF ~got.ok
        THEN [ok |-> FALSE, df |-> got.df, fs |-> fs, line |-> 36, err |-> got.err, ev |-> got.ev]
        ELSE IF fail = "write_feature_store"
        THEN [ok |-> FALSE, df |-> got.df, fs |-> fs, line |-> 42,
              err |-> PlainErr("OSError", <<>>), ev |-> got.ev]
        ELSE [ok |-> TRUE, df |-> got.df,
              fs |-> [fs EXCEPT !["feature_store"] = Csv(got.df, "all", r)],
              line |-> 0, err |-> NoErr, ev |-> got.ev]
  IN RewrapAt(store(export_collection_as_dataframe(coll, fail)),
              "export_data_into_feature_store", "data_ingestion.py")

\* sklearn train_test_split with a float test_size: n_test = ceil(ratio * n)
TestRows(n) == (n + TRAIN_TEST_SPLIT_RATIO_DEN - 1) \div TRAIN_TEST_SPLIT_RATIO_DEN

TrainRows(n) == n - TestRows(n)

(* data_ingestion.py: split and write the two sets.  Both to_csv calls     *)
(* name testing_file_path (lines 70 and 71).  split_called records that    *)
(* train_test_split was invoked; it raises when the train set would be     *)
(* empty.                                                                  *)
split_data_as_train_test(fs, df, fail, r) ==
  LET train_set == Frame(TrainRows(df.rows), df.cols)
      test_set  == Frame(TestRows(df.rows), df.cols)
      fs1 == [fs EXCEPT !["test"] = Csv(train_set, "train", r)]
      fs2 == [fs1 EXCEPT !["test"] = Csv(test_set, "test", r)]
      res ==
        IF DataFrameEmpty(df)
        THEN [ok |-> FALSE, fs |-> fs, line |-> 60, split_called |-> FALSE,
              err |-> PlainErr("ValueError", <<"The dataframe is empty. Please check the data loading process.">>), ev |-> {}]
        ELSE IF TrainRows(df.rows) = 0 \/ fail = "split"
        THEN [ok |-> FALSE, fs |-> fs, line |-> 62, split_called |-> TRUE,
              err |-> PlainErr("ValueError", <<>>), ev |-> {}]
        ELSE IF fail = "write_train_set"
        THEN [ok |-> FALSE, fs |-> fs, line |-> 70, split_called |-> TRUE,
              err |-> PlainErr("OSError", <<>>), ev |-> {}]
        ELSE IF fail = "write_test_set"
        THEN [ok |-> FALSE, fs |-> fs1, line |-> 71, split_called |-> TRUE,
              err |-> PlainErr("OSError", <<>>), ev |-> {}]
        ELSE [ok |-> TRUE, fs |-> fs2, line |-> 0, split_called |-> TRUE, err |-> NoErr, ev |-> {}]
  IN RewrapAt(res, "split_data_as_train_test", "data_ingestion.py")

DataIngestionArtifact == [trained_file_path |-> "train", test_file_path |-> "test"]

initiate_data_ingestion(fs, coll, fail, r) ==
  LET finish(ex, sp) ==
        IF ~ex.ok
        THEN [ok |-> FALSE, fs |-> ex.fs, line |-> 90, split_called |-> FALSE, art |-> <<>>, df |-> ex.df,
              err |-> ex.err, ev |-> ex.ev]
        ELSE IF DataFrameEmpty(ex.df)
        THEN [ok |-> FALSE, fs |-> ex.fs, line |-> 94, split_called |-> FALSE, art |-> <<>>, df |-> ex.df,
              err |-> PlainErr("ValueError", <<"The dataframe fetched from Mongo is empty. Please check the data loading process">>),
              ev |-> ex.ev]
        ELSE IF ~sp.ok
        THEN [ok |-> FALSE, fs |-> sp.fs, line |-> 96, split_called |-> sp.split_called,
              art |-> <<>>, df |-> ex.df,
              err |-> sp.err, ev |-> ex.ev \cup sp.ev]
        ELSE IF fail = "artifact"
        THEN [ok |-> FALSE, fs |-> sp.fs, line |-> 101, split_called |-> TRUE, art |-> <<>>, df |-> ex.df,
              err |-> PlainErr("TypeError", <<>>), ev |-> ex.ev \cup sp.ev]
        ELSE [ok |-> TRUE, fs |-> sp.fs, line |-> 0, split_called |-> TRUE,
              art |-> <<DataIngestionArtifact>>, df |-> ex.df, err |-> NoErr, ev |-> ex.ev \cup sp.ev]
      split(ex) == finish(ex, split_data_as_train_test(ex.fs, ex.df, fail, r))
  IN RewrapAt(split(export_data_into_feature_store(fs, coll, fail, r)),
              "initiate_data_ingestion", "data_ingestion.py")

IngestionFails == {"none", "find", "write_feature_store", "split",
                   "write_train_set", "write_test_set", "artifact"}

(* ---------------------------- validation ------------------------------- *)
\* DataValidation.read_data: pd.read_csv of a local path
read_data(fs, path, failing, handler, file, line) ==
  LET r == IF fs[path].kind # "csv" \/ failing
           THEN [ok |-> FALSE, df |-> Frame(0, {}), part |-> "none", run |-> 0,
                 err |-> PlainErr("FileNotFoundError", <<>>), ev |-> {}]
           ELSE [ok |-> TRUE, df |-> Frame(fs[path].rows, fs[path].cols),
                 part |-> fs[path].part, run |-> fs[path].run, err |-> NoErr, ev |-> {}]
  IN Rewrap(r, handler, file, line)

validate_number_of_columns_at_least(df) == Cardinality(df.cols) >= Cardinality(SchemaColumns)

validate_number_of_columns(df) == Cardinality(df.cols) = Cardinality(SchemaColumns)

is_column_exist(df) ==
  /\ SchemaNumericalColumns \subseteq df.cols
  /\ SchemaCategoricalColumns \subseteq df.cols

(* The message accumulated by the four checks, in the order of the code.   *)
validation_error_msg(train_df, test_df) ==
  (IF validate_number_of_columns(train_df) THEN <<>>
   ELSE <<"Columns are missing in training dataframe.">>) \o
  (IF validate_number_of_columns(test_df) THEN <<>>
   ELSE <<"Columns are missing in test dataframe.">>) \o
  (IF is_column_exist(train_df) THEN <<>>
   ELSE <<"Columns are missing in training dataframe.">>) \o
  (IF is_column_exist(test_df) THEN <<>>
   ELSE <<"columns are missing in test dataframe.">>)

(* Evidently profile, then the report file, then the dataset-level flag.   *)
detect_dataset_drift(fs, fail, drift, r) ==
  LET res ==
        IF fail = "drift_calculate"
        THEN [ok |-> FALSE, fs |-> fs, line |-> 241, drift |-> FALSE,
              err |-> PlainErr("ValueError", <<>>), ev |-> {}]
        ELSE IF fail = "write_report"
        THEN [ok |-> FALSE, fs |-> fs, line |-> 247, drift |-> FALSE,
              err |-> custom_exception(PlainErr("OSError", <<>>), "utils/__init__.py", 54),
              ev |-> {CatchEvent("write_yaml_file", PlainErr("OSError", <<>>), "custom_exception")}]
        ELSE [ok |-> TRUE, fs |-> [fs EXCEPT !["drift_report"] = Obj("yaml", r)],
              line |-> 0, drift |-> drift, err |-> NoErr, ev |-> {}]
  IN RewrapAt(res, "detect_dataset_drift", "data_validation.py")

DataValidationArtifact(status, message) ==
  [validation_status |-> status, message |-> message,
   drift_report_file_path |-> "drift_report"]

\* the condition at data_validation.py:324 under which drift detection runs
DriftGate_always(validation_status) == TRUE

DriftGate(validation_status) == validation_status

\* validation_status=validation_status (data_validation.py:336): the status
\* computed at line 321 from the schema checks; the drift branch assigns the
\* message only
artifact_validation_status_cleared_by_drift(validation_status, drift_status) ==
  validation_status /\ ~drift_status

artifact_validation_status(validation_status, drift_status) == validation_status

(* read: the frames read from the train and the test path (empty when a    *)
(* read raised).                                                           *)
initiate_data_validation(fs, art, fail, drift, r) ==
  LET outcome(tr, te, msg, validation_status, dd, fs1, message) ==
        IF ~tr.ok
        THEN [ok |-> FALSE, fs |-> fs, line |-> 295, art |-> <<>>, drift_called |-> FALSE,
              read |-> <<>>, err |-> tr.err, ev |-> tr.ev]
        ELSE IF ~te.ok
        THEN [ok |-> FALSE, fs |-> fs, line |-> 296, art |-> <<>>, drift_called |-> FALSE,
              read |-> <<>>, err |-> te.err, ev |-> te.ev]
        ELSE IF DriftGate(validation_status) /\ ~dd.ok
        THEN [ok |-> FALSE, fs |-> fs, line |-> 325, art |-> <<>>, drift_called |-> TRUE,
              read |-> <<tr.df, te.df>>, err |-> dd.err, ev |-> dd.ev]
        ELSE IF fail = "artifact"
        THEN [ok |-> FALSE, fs |-> fs1, line |-> 335, art |-> <<>>,
              drift_called |-> DriftGate(validation_status),
              read |-> <<tr.df, te.df>>, err |-> PlainErr("TypeError", <<>>), ev |-> {}]
        ELSE [ok |-> TRUE, fs |-> fs1, line |-> 0,
              art |-> <<DataValidationArtifact(
                          artifact_validation_status(validation_status,
                                                     DriftGate(validation_status) /\ dd.drift),
                          message)>>,
              drift_called |-> DriftGate(validation_status),
              read |-> <<tr.df, te.df>>, err |-> NoErr, ev |-> {}]
      drifted(tr, te, msg, validation_status, dd) ==
        outcome(tr, te, msg, validation_status, dd,
                IF DriftGate(validation_status) /\ dd.ok THEN dd.fs ELSE fs,
                IF DriftGate(validation_status)
                THEN (IF dd.drift THEN <<"Drift detected">> ELSE <<"Drift not detected">>)
                ELSE msg)
      checked(tr, te, msg) ==
        drifted(tr, te, msg, Len(msg) = 0, detect_dataset_drift(fs, fail, drift, r))
      validated(tr, te) == checked(tr, te, validation_error_msg(tr.df, te.df))
  IN RewrapAt(validated(read_data(fs, art.trained_file_path, fail = "read_train",
                                  "DataValidation.read_data", "data_validation.py", 201),
                        read_data(fs, art.test_file_path, fail = "read_test",
                                  "DataValidation.read_data", "data_validation.py", 201)),
              "initiate_data_validation", "data_validation.py")

ValidationFails == {"none", "read_train", "read_test", "drift_calculate",
                    "write_report", "artifact"}

(* -------------------------- transformation ----------------------------- *)
DataTransformationArtifact ==
  [transformed_object_file_path |-> "preprocessor",
   transformed_train_file_path |-> "train_arr",
   transformed_test_file_path |-> "test_arr"]

\* the gate at data_transformation.py:228
ValidationGate_ignored(val_art) == TRUE

ValidationGate(val_art) == val_art.validation_status

\* preprocessor.fit_transform(input_feature_train_df) (data_transformation.py:281):
\* the frame the transformer is fitted on, of the train and the test frame read
FitFrame_test(tr, te) == te

FitFrame(tr, te) == tr

(* SMOTEENN.fit_resample: the minority class is over-sampled with          *)
(* synthetic rows and rows are then removed by the nearest-neighbour       *)
(* cleaning.  How many of each depends on the labels and the neighbours:   *)
(* resample tells the rows added and removed.                              *)
Resamplings == {[added |-> a, removed |-> d] : a \in 0..1, d \in 0..1}

NoResampling == [added |-> 0, removed |-> 0]

\* the rows of a frame, as a sample: none synthetic, none removed
Sample(rows) == [rows |-> rows, synthetic |-> 0, removed |-> 0]

fit_resample(rows, resample) ==
  LET removed == IF resample.removed > rows THEN rows ELSE resample.removed
  IN [rows |-> rows + resample.added - removed,
      synthetic |-> resample.added, removed |-> removed]

(* fits: the fit calls made, each with the object fitted and the file part *)
(* it was fitted on.  The preprocessor is fitted by fit_transform on the   *)
(* frame read from trained_file_path; SMOTEENN.fit_resample is applied to  *)
(* the train arrays and then to the test arrays; the test array saved      *)
(* holds the resampled rows (sample).  The rows of the train array are     *)
(* not followed.                                                           *)
initiate_data_transformation(fs, ing_art, val_art, fail, r, resample) ==
  LET bad(line, f, fits, e, ev) ==
        [ok |-> FALSE, fs |-> f, line |-> line, art |-> <<>>, fits |-> fits,
         err |-> e, ev |-> ev]
      steps(tr, te, fit1, fit2, fit3, fs1, fs2, fs3) ==
        IF ~ValidationGate(val_art)
        THEN bad(340, fs, <<>>, PlainErr("Exception", val_art.message), {})
        ELSE IF fail = "build"
        THEN bad(232, fs, <<>>,
                 custom_exception(PlainErr("KeyError", <<>>), "data_transformation.py", 176),
                 {CatchEvent("get_data_transformer_object", PlainErr("KeyError", <<>>),
                             "custom_exception")})
        ELSE IF ~tr.ok THEN bad(237, fs, <<>>, tr.err, tr.ev)
        ELSE IF ~te.ok THEN bad(240, fs, <<>>, te.err, te.ev)
        ELSE IF TARGET_COLUMN \notin tr.df.cols
        THEN bad(245, fs, <<>>, PlainErr("KeyError", <<>>), {})
        ELSE IF TARGET_COLUMN \notin te.df.cols
        THEN bad(262, fs, <<>>, PlainErr("KeyError", <<>>), {})
        ELSE IF fail = "fit" THEN bad(281, fs, fit1, PlainErr("ValueError", <<>>), {})
        ELSE IF fail = "transform" THEN bad(285, fs, fit1, PlainErr("ValueError", <<>>), {})
        ELSE IF fail = "resample_train"
        THEN bad(292, fs, fit2, PlainErr("ValueError", <<>>), {})
        ELSE IF fail = "resample_test"
        THEN bad(299, fs, fit3, PlainErr("ValueError", <<>>), {})
        ELSE IF fail = "save_object"
        THEN bad(315, fs, fit3,
                 custom_exception(PlainErr("OSError", <<>>), "utils/__init__.py", 146),
                 {CatchEvent("save_object", PlainErr("OSError", <<>>), "custom_exception")})
        ELSE IF fail = "save_train_arr"
        THEN bad(318, fs1, fit3,
                 custom_exception(PlainErr("OSError", <<>>), "utils/__init__.py", 104),
                 {CatchEvent("save_numpy_array_data", PlainErr("OSError", <<>>),
                             "custom_exception")})
        ELSE IF fail = "save_test_arr"
        THEN bad(321, fs2, fit3,
                 custom_exception(PlainErr("OSError", <<>>), "utils/__init__.py", 104),
                 {CatchEvent("save_numpy_array_data", PlainErr("OSError", <<>>),
                             "custom_exception")})
        ELSE IF fail = "artifact"
        THEN bad(331, fs3, fit3, PlainErr("TypeError", <<>>), {})
        ELSE [ok |-> TRUE, fs |-> fs3, line |-> 0, art |-> <<DataTransformationArtifact>>,
              fits |-> fit3, err |-> NoErr, ev |-> {}]
      saved(tr, te, fit1, fit2, fit3, fs1, fs2) ==
        steps(tr, te, fit1, fit2, fit3, fs1, fs2,
              [fs2 EXCEPT !["test_arr"] = [kind |-> "npy", part |-> te.part, run |-> r,
                                           sample |-> fit_resample(te.df.rows, resample)]])
      fitted(tr, te, fit1, fit2, fs1) ==
        saved(tr, te, fit1, fit2, fit2 \o <<[obj |-> "SMOTEENN", on |-> te.part]>>, fs1,
              [fs1 EXCEPT !["train_arr"] = [kind |-> "npy", part |-> tr.part, run |-> r]])
      read(tr, te, fit1) ==
        fitted(tr, te, fit1, fit1 \o <<[obj |-> "SMOTEENN", on |-> tr.part]>>,
               [fs EXCEPT !["preprocessor"] =
                  [kind |-> "preprocessor", fitted_on |-> fit1[1].on, run |-> r]])
      transform(tr, te) ==
        read(tr, te, <<[obj |-> "preprocessor", on |-> FitFrame(tr, te).part]>>)
  IN RewrapAt(transform(read_data(fs, ing_art.trained_file_path, fail = "read_train",
                                  "DataTransformation.read_data", "data_transformation.py", 135),
                        read_data(fs, ing_art.test_file_path, fail = "read_test",
                                  "DataTransformation.read_data", "data_transformation.py", 135)),
              "initiate_data_transformation", "data_transformation.py")

TransformationFails ==
  {"none", "build", "read_train", "read_test", "fit", "transform", "resample_train",
   "resample_test", "save_object", "save_train_arr", "save_test_arr", "artifact"}

(* ------------------------------ training ------------------------------- *)
\* load_numpy_array_data / load_object of utils: a missing file raises
load_local_own_files_only(fs, path, kind, failing, handler, line) ==
  LET e == PlainErr("FileNotFoundError", <<>>)
  IN IF fs[path].kind # kind \/ failing \/ fs[path].run = OtherRunId
     THEN [ok |-> FALSE, obj |-> Absent,
           err |-> custom_exception(e, "utils/__init__.py", line),
           ev |-> {CatchEvent(handler, e, "custom_exception")}]
     ELSE [ok |-> TRUE, obj |-> fs[path], err |-> NoErr, ev |-> {}]

load_local(fs, path, kind, failing, handler, line) ==
  LET e == PlainErr("FileNotFoundError", <<>>)
  IN IF fs[path].kind # kind \/ failing
     THEN [ok |-> FALSE, obj |-> Absent,
           err |-> custom_exception(e, "utils/__init__.py", line),
           ev |-> {CatchEvent(handler, e, "custom_exception")}]
     ELSE [ok |-> TRUE, obj |-> fs[path], err |-> NoErr, ev |-> {}]

ModelTrainerArtifact(f1) ==
  [trained_model_file_path |-> "model", metric_artifact |-> [f1_score |-> f1]]

\* the guardrail at model_trainer.py:133
BelowExpected_strictly_or_equal(best_score) == best_score <= MODEL_TRAINER_EXPECTED_SCORE

BelowExpected(best_score) == best_score < MODEL_TRAINER_EXPECTED_SCORE

(* best_score: the score the model search returns; f1: the F1 of the best  *)
(* model on the transformed test array.                                    *)
initiate_model_trainer(fs, tr_art, fail, best_score, f1, r) ==
  LET bad(line, f, e, ev) ==
        [ok |-> FALSE, fs |-> f, line |-> line, art |-> <<>>, err |-> e, ev |-> ev]
      train(la, lt, lo, fs1) ==
        IF ~la.ok THEN bad(125, fs, la.err, la.ev)
        ELSE IF ~lt.ok THEN bad(126, fs, lt.err, lt.ev)
        ELSE IF fail = "search"
        THEN bad(128, fs,
                 custom_exception(PlainErr("Exception", <<>>), "model_trainer.py", 84),
                 {CatchEvent("get_model_object_and_report", PlainErr("Exception", <<>>),
                             "custom_exception")})
        ELSE IF ~lo.ok THEN bad(130, fs, lo.err, lo.ev)
        ELSE IF BelowExpected(best_score)
        THEN bad(135, fs,
                 PlainErr("Exception", <<"No best model found with score more than base score">>),
                 {})
        ELSE IF fail = "save_object"
        THEN bad(144, fs,
                 custom_exception(PlainErr("OSError", <<>>), "utils/__init__.py", 146),
                 {CatchEvent("save_object", PlainErr("OSError", <<>>), "custom_exception")})
        ELSE IF fail = "artifact"
        THEN bad(147, fs1, PlainErr("TypeError", <<>>), {})
        ELSE [ok |-> TRUE, fs |-> fs1, line |-> 0, art |-> <<ModelTrainerArtifact(f1)>>,
              err |-> NoErr, ev |-> {}]
      loaded(la, lt, lo) ==
        train(la, lt, lo,
              [fs EXCEPT !["model"] = [kind |-> "model", preprocessor |-> lo.obj, run |-> r]])
  IN RewrapAt(loaded(load_local(fs, tr_art.transformed_train_file_path, "npy",
                                fail = "load_train_arr", "load_numpy_array_data", 123),
                     load_local(fs, tr_art.transformed_test_file_path, "npy",
                                fail = "load_test_arr", "load_numpy_array_data", 123),
                     load_local(fs, tr_art.transformed_object_file_path, "preprocessor",
                                fail = "load_object", "load_object", 76)),
              "initiate_model_trainer", "model_trainer.py")

TrainerFails ==
  {"none", "load_train_arr", "load_test_arr", "search", "load_object",
   "save_object", "artifact"}

(* --------------------------- remote storage ---------------------------- *)
MODEL_PUSHER_S3_KEY == "model-registry"

(* S3Client.__init__: the class-level handle is created when it is unset,  *)
(* which raises a plain Exception when a credential variable is missing;   *)
(* a set handle is reused.                                                 *)
S3Client(handle, env_missing) ==
  IF handle # "None" THEN [ok |-> TRUE, handle |-> handle, err |-> NoErr]
  ELSE IF env_missing THEN [ok |-> FALSE, handle |-> handle, err |-> PlainErr("Exception", <<>>)]
  ELSE [ok |-> TRUE, handle |-> "client", err |-> NoErr]

(* SimpleStorageService.s3_key_path_available: list the objects under the  *)
(* prefix; any failure is re-raised wrapped.                               *)
s3_key_path_available(reg, failing) ==
  LET r == IF failing
           THEN [ok |-> FALSE, val |-> FALSE, err |-> PlainErr("ClientError", <<>>), ev |-> {}]
           ELSE [ok |-> TRUE, val |-> reg.kind # "absent", err |-> NoErr, ev |-> {}]
  IN Rewrap(r, "s3_key_path_available", "aws_storage.py", 86)

(* project1Estimator.is_model_present: catches custom_exception, prints it *)
(* and returns False.                                                      *)
is_model_present_raising(reg, failing) == s3_key_path_available(reg, failing)

is_model_present(reg, failing) ==
  LET handled(r) ==
        IF r.ok THEN r
        ELSE IF r.err.kind = "custom_exception"
        THEN [ok |-> TRUE, val |-> FALSE, err |-> NoErr,
              ev |-> r.ev \cup {CatchEvent("is_model_present", r.err, "return False")}]
        ELSE r
  IN handled(s3_key_path_available(reg, failing))

(* SimpleStorageService.load_model through project1Estimator.predict: the  *)
(* get-object and unpickle of the object at the key.                       *)
predict(reg, failing) ==
  LET e == PlainErr("ClientError", <<>>)
      r == IF failing \/ reg.kind # "model"
           THEN [ok |-> FALSE, err |-> custom_exception(e, "aws_storage.py", 307),
                 ev |-> {CatchEvent("load_model", e, "custom_exception")}]
           ELSE [ok |-> TRUE, err |-> NoErr, ev |-> {}]
  IN Rewrap(r, "predict", "s3_estimator.py", 150)

(* SimpleStorageService.upload_file through project1Estimator.save_model   *)
(* (remove = False): the object at the key is replaced by the local file.  *)
save_model_keeping_existing(fs, reg, from_file, failing) ==
  LET e == PlainErr(IF fs[from_file].kind = "absent" THEN "FileNotFoundError" ELSE "ClientError",
                    <<>>)
      r == IF failing \/ fs[from_file].kind = "absent"
           THEN [ok |-> FALSE, reg |-> reg, err |-> custom_exception(e, "aws_storage.py", 419),
                 ev |-> {CatchEvent("upload_file", e, "custom_exception")}]
           ELSE [ok |-> TRUE, reg |-> IF reg.kind = "absent" THEN fs[from_file] ELSE reg,
                 err |-> NoErr, ev |-> {}]
  IN Rewrap(r, "save_model", "s3_estimator.py", 113)

save_model(fs, reg, from_file, failing) ==
  LET e == PlainErr(IF fs[from_file].kind = "absent" THEN "FileNotFoundError" ELSE "ClientError",
                    <<>>)
      r == IF failing \/ fs[from_file].kind = "absent"
           THEN [ok |-> FALSE, reg |-> reg, err |-> custom_exception(e, "aws_storage.py", 419),
                 ev |-> {CatchEvent("upload_file", e, "custom_exception")}]
           ELSE [ok |-> TRUE, reg |-> fs[from_file], err |-> NoErr, ev |-> {}]
  IN Rewrap(r, "save_model", "s3_estimator.py", 113)

(* SimpleStorageService.create_folder.  load: the outcome of Object.load() *)
(* ("ok", a ClientError with code "404" or "403", or another error).  Only *)
(* ClientError is caught: 404 creates the folder object, any other code is *)
(* passed over, and the method returns None.                               *)
create_folder(exists, load, put_failing) ==
  LET ce == PlainErr("ClientError", <<load>>)
  IN IF load = "ok"
     THEN [ok |-> TRUE, exists |-> exists, err |-> NoErr, ev |-> {}]
     ELSE IF load = "404"
     THEN IF put_failing
          THEN [ok |-> FALSE, exists |-> exists, err |-> PlainErr("ClientError", <<"put">>),
                ev |-> {CatchEvent("create_folder", ce, "raise in handler")}]
          ELSE [ok |-> TRUE, exists |-> TRUE, err |-> NoErr,
                ev |-> {CatchEvent("create_folder", ce, "folder created")}]
     ELSE IF load = "403"
     THEN [ok |-> TRUE, exists |-> exists, err |-> NoErr,
           ev |-> {CatchEvent("create_folder", ce, "pass")}]
     ELSE [ok |-> FALSE, exists |-> exists, err |-> PlainErr("EndpointConnectionError", <<>>),
           ev |-> {}]

(* ----------------------------- evaluation ------------------------------ *)
(* ModelEvaluation.get_best_model: the estimator handle when the key is    *)
(* present, None otherwise.                                                *)
get_best_model_none_on_error(reg, handle, fail) ==
  LET present(c, p) ==
        IF ~c.ok
        THEN [ok |-> TRUE, val |-> FALSE, handle |-> c.handle, line |-> 0, err |-> NoErr,
              ev |-> {CatchEvent("get_best_model", c.err, "return None")}]
        ELSE [ok |-> p.ok, val |-> p.val, handle |-> c.handle, line |-> 97, err |-> p.err,
              ev |-> p.ev]
  IN present(S3Client(handle, fail = "s3_client"),
             is_model_present(reg, fail = "list_objects"))

get_best_model(reg, handle, fail) ==
  LET present(c, p) ==
        IF ~c.ok
        THEN [ok |-> FALSE, val |-> FALSE, handle |-> c.handle, line |-> 94, err |-> c.err,
              ev |-> {}]
        ELSE [ok |-> p.ok, val |-> p.val, handle |-> c.handle, line |-> 97, err |-> p.err,
              ev |-> p.ev]
  IN RewrapAt(present(S3Client(handle, fail = "s3_client"),
                      is_model_present(reg, fail = "list_objects")),
              "get_best_model", "model_evaluation.py")

\* the comparison at model_evaluation.py:146
Accepts_or_equal(trained, baseline) == trained >= baseline

Accepts(trained, baseline) == trained > baseline

\* difference=trained_model_f1_score - tmp_best_model_score (model_evaluation.py:147)
Difference_absolute(trained, baseline) ==
  IF trained >= baseline THEN trained - baseline ELSE baseline - trained

Difference(trained, baseline) == trained - baseline

(* EvaluateModelResponse; best_model_f1_score is <<>> for None.            *)
EvaluateModelResponse(trained, best) ==
  LET tmp_best_model_score == IF best = <<>> THEN 0 ELSE best[1]
  IN [trained_model_f1_score |-> trained,
      best_model_f1_score |-> best,
      is_model_accepted |-> Accepts(trained, tmp_best_model_score),
      difference |-> Difference(trained, tmp_best_model_score)]

(* prod_f1: the F1 of the production model's predictions on the test file. *)
\* "if best_model is not None" (model_evaluation.py:139): the production model is
\* run only when get_best_model returned an estimator
HasBestModel_always(found) == TRUE

HasBestModel(found) == found

\* the new model's score (model_evaluation.py:133-134): the load of the trained
\* model file is commented out and the stored metric is used
trained_model_f1_score_of_loaded_file(fs, mt_art) ==
  IF fs[mt_art.trained_model_file_path].kind = "model"
  THEN mt_art.metric_artifact.f1_score
  ELSE 0

trained_model_f1_score(fs, mt_art) == mt_art.metric_artifact.f1_score

(* gets counts the get-object requests issued; checked holds what the      *)
(* existence check returned, when it returned.                             *)
evaluate_model(fs, reg, handle, ing_art, mt_art, fail, prod_f1) ==
  LET bad(line, e, ev, gets, checked, h) ==
        [ok |-> FALSE, line |-> line, resp |-> <<>>, gets |-> gets, checked |-> checked,
         handle |-> h, err |-> e, ev |-> ev]
      compare(te, bm, pr, best) ==
        IF ~te.ok
        THEN bad(127, PlainErr("FileNotFoundError", <<>>), {}, 0, <<>>, handle)
        ELSE IF TARGET_COLUMN \notin te.df.cols
        THEN bad(129, PlainErr("KeyError", <<>>), {}, 0, <<>>, handle)
        ELSE IF ~bm.ok THEN bad(138, bm.err, bm.ev, 0, <<>>, bm.handle)
        ELSE IF HasBestModel(bm.val) /\ ~pr.ok
        THEN bad(140, pr.err, bm.ev \cup pr.ev, 1, <<bm.val>>, bm.handle)
        ELSE IF HasBestModel(bm.val) /\ fail = "f1_score"
        THEN bad(141, PlainErr("ValueError", <<>>), bm.ev, 1, <<bm.val>>, bm.handle)
        ELSE [ok |-> TRUE, line |-> 0,
              resp |-> <<EvaluateModelResponse(trained_model_f1_score(fs, mt_art), best)>>,
              gets |-> IF HasBestModel(bm.val) THEN 1 ELSE 0, checked |-> <<bm.val>>,
              handle |-> bm.handle, err |-> NoErr, ev |-> bm.ev]
      scored(te, bm, pr) ==
        compare(te, bm, pr, IF bm.ok /\ HasBestModel(bm.val) THEN <<prod_f1>> ELSE <<>>)
  IN RewrapAt(scored(read_data(fs, ing_art.test_file_path, fail = "read_test",
                               "evaluate_model", "model_evaluation.py", 127),
                     get_best_model(reg, handle, fail),
                     predict(reg, fail = "get_object")),
              "evaluate_model", "model_evaluation.py")

ModelEvaluationArtifact(resp, mt_art) ==
  [is_model_accepted |-> resp.is_model_accepted,
   s3_model_path |-> MODEL_PUSHER_S3_KEY,
   trained_model_path |-> mt_art.trained_model_file_path,
   changed_accuracy |-> resp.difference]

initiate_model_evaluation(fs, reg, handle, ing_art, mt_art, fail, prod_f1) ==
  LET artifact(em) ==
        IF ~em.ok
        THEN [ok |-> FALSE, line |-> 174, art |-> <<>>, resp |-> <<>>, gets |-> em.gets,
              checked |-> em.checked, handle |-> em.handle, err |-> em.err, ev |-> em.ev]
        ELSE IF fail = "artifact"
        THEN [ok |-> FALSE, line |-> 177, art |-> <<>>, resp |-> em.resp, gets |-> em.gets,
              checked |-> em.checked, handle |-> em.handle, err |-> PlainErr("TypeError", <<>>), ev |-> em.ev]
        ELSE [ok |-> TRUE, line |-> 0, art |-> <<ModelEvaluationArtifact(em.resp[1], mt_art)>>,
              resp |-> em.resp, gets |-> em.gets, checked |-> em.checked,
              handle |-> em.handle,
              err |-> NoErr, ev |-> em.ev]
  IN RewrapAt(artifact(evaluate_model(fs, reg, handle, ing_art, mt_art, fail, prod_f1)),
              "initiate_model_evaluation", "model_evaluation.py")

EvaluationFails ==
  {"none", "read_test", "s3_client", "list_objects", "get_object", "f1_score", "artifact"}

(* ----------------------------- publishing ------------------------------ *)
ModelPusherArtifact ==
  [bucket_name |-> "aiml1013project1", s3_model_path |-> MODEL_PUSHER_S3_KEY]

(* ModelPusher.initiate_model_pusher: save_model of the file named by the  *)
(* evaluation artifact, then the artifact.  is_model_accepted is not read. *)
initiate_model_pusher_gated(fs, reg, ev_art, fail) ==
  IF ev_art.is_model_accepted /\ fail = "none" /\ fs[ev_art.trained_model_path].kind # "absent"
  THEN [ok |-> TRUE, reg |-> fs[ev_art.trained_model_path], line |-> 0,
        art |-> <<ModelPusherArtifact>>, err |-> NoErr, ev |-> {}]
  ELSE [ok |-> TRUE, reg |-> reg, line |-> 0, art |-> <<>>, err |-> NoErr, ev |-> {}]

initiate_model_pusher(fs, reg, ev_art, fail) ==
  LET artifact(sm) ==
        IF ~sm.ok
        THEN [ok |-> FALSE, reg |-> reg, line |-> 79, art |-> <<>>, err |-> sm.err, ev |-> sm.ev]
        ELSE IF fail = "artifact"
        THEN [ok |-> FALSE, reg |-> sm.reg, line |-> 82, art |-> <<>>,
              err |-> PlainErr("TypeError", <<>>), ev |-> {}]
        ELSE [ok |-> TRUE, reg |-> sm.reg, line |-> 0, art |-> <<ModelPusherArtifact>>,
              err |-> NoErr, ev |-> {}]
  IN RewrapAt(artifact(save_model(fs, reg, ev_art.trained_model_path, fail = "upload")),
              "initiate_model_pusher", "model_pusher.py")

PusherFails == {"none", "upload", "artifact"}

(* --------------------------- the model bundle -------------------------- *)
(* A bundle is a fitted transformer and a fitted classifier.  Here the     *)
(* transformer shifts a feature by its fitted centre and the classifier    *)
(* labels a transformed feature 1 when it reaches its fitted threshold.    *)
Transformers == [center : 0..2]

Classifiers == [threshold : 0..2]

Bundles == [preprocessing_object : Transformers, trained_model_object : Classifiers]

Frames == UNION {[1..n -> 0..2] : n \in 1..MaxRows}

\* project1Model.predict: the transformer, then the classifier
Predict(obj, frame) ==
  [i \in 1..Len(frame) |->
     IF frame[i] + obj.preprocessing_object.center >= obj.trained_model_object.threshold
     THEN 1 ELSE 0]

\* dill.dump: the class by reference, then the attributes of the instance
dill_dump(obj) ==
  <<"AIML_1013_Project1.entity.estimator.project1Model",
    <<"preprocessing_object", obj.preprocessing_object>>,
    <<"trained_model_object", obj.trained_model_object>>,
    "STOP">>

Attribute(stream, name) ==
  LET at == {i \in 2..(Len(stream) - 1) : stream[i][1] = name}
  IN IF at = {} THEN <<>> ELSE <<stream[CHOOSE i \in at : TRUE][2]>>

\* pickle.loads: an instance of the named class with the attributes of the stream
pickle_loads_classifier_only(stream) ==
  IF Len(stream) < 2 \/ stream[Len(stream)] # "STOP" \/ Attribute(stream, "trained_model_object") = <<>>
  THEN [ok |-> FALSE, obj |-> <<>>]
  ELSE [ok |-> TRUE,
        obj |-> <<[preprocessing_object |-> [center |-> 0],
                   trained_model_object |-> Attribute(stream, "trained_model_object")[1]]>>]

pickle_loads(stream) ==
  IF \/ Len(stream) < 2
     \/ stream[Len(stream)] # "STOP"
     \/ stream[1] # "AIML_1013_Project1.entity.estimator.project1Model"
     \/ Attribute(stream, "preprocessing_object") = <<>>
     \/ Attribute(stream, "trained_model_object") = <<>>
  THEN [ok |-> FALSE, obj |-> <<>>]
  ELSE [ok |-> TRUE,
        obj |-> <<[preprocessing_object |-> Attribute(stream, "preprocessing_object")[1],
                   trained_model_object |-> Attribute(stream, "trained_model_object")[1]]>>]

\* Prefix=filename: of the keys the program writes only the name itself starts with it
StartsWith(k, filename) == k = filename

\* SimpleStorageService.get_file_object: the one object whose key starts with
\* the name, or the list of them
get_file_object(bucket, filename) ==
  LET file_objects == {k \in DOMAIN bucket : StartsWith(k, filename)}
  IN IF Cardinality(file_objects) = 1 THEN <<bucket[filename]>> ELSE <<>>

\* SimpleStorageService.load_model: get_file_object, read_object, pickle.loads
load_model(bucket, model_name, failing) ==
  LET loaded(got) ==
        IF failing \/ got = <<>> THEN [ok |-> FALSE, obj |-> <<>>] ELSE pickle_loads(got[1])
  IN loaded(get_file_object(bucket, model_name))

NoBundle == [stage |-> "none", obj |-> <<>>, frame |-> <<>>, file |-> <<>>,
             bucket |-> <<>>, loaded |-> <<>>]

(* ------------------------- estimator instance -------------------------- *)
(* loaded_model is <<>> for None; loads counts the load_model calls made,  *)
(* predicts the predict calls, and last tells how the last call ended.     *)
NoEstimator == [made |-> FALSE, loaded_model |-> <<>>, loads |-> 0, predicts |-> 0,
                last |-> "none"]

\* project1Estimator.__init__
project1Estimator == [made |-> TRUE, loaded_model |-> <<>>, loads |-> 0, predicts |-> 0,
                      last |-> "none"]

(* project1Estimator.predict on an instance: load_model when loaded_model  *)
(* is None, then predict of the loaded model; any error is re-raised.      *)
estimator_predict_reloading(inst, reg, fail) ==
  IF fail = "get_object" \/ reg.kind # "model"
  THEN [inst EXCEPT !.loads = @ + 1, !.predicts = @ + 1, !.last = "load raised"]
  ELSE [inst EXCEPT !.loads = @ + 1, !.predicts = @ + 1, !.loaded_model = <<reg>>,
                    !.last = IF fail = "predict" THEN "predict raised" ELSE "returned"]

estimator_predict(inst, reg, fail) ==
  LET predicted(i) ==
        [i EXCEPT !.predicts = @ + 1,
                  !.last = IF fail = "predict" THEN "predict raised" ELSE "returned"]
  IN IF inst.loaded_model # <<>> THEN predicted(inst)
     ELSE IF fail = "get_object" \/ reg.kind # "model"
     THEN [inst EXCEPT !.loads = @ + 1, !.predicts = @ + 1, !.last = "load raised"]
     ELSE predicted([inst EXCEPT !.loads = @ + 1, !.loaded_model = <<reg>>])

EstimatorFails == {"none", "get_object", "predict"}

(* ---------------------------- HTTP layer ------------------------------- *)
\* run: the number of the invocation of run_pipeline the request makes
NoRequest == [state |-> "idle", run |-> 0, response |-> <<>>]

\* "except Exception as e" (app.py:87): the errors the handler of the endpoint catches
CaughtByEndpoint_custom_only(e) == e.kind = "custom_exception"

CaughtByEndpoint(e) == TRUE

\* Response("Training successful !!") / Response(f"Error Occurred! {e}")
TrainResponse(raised, e) ==
  IF ~raised THEN [state |-> "responded", response |-> <<"Training successful !!">>]
  ELSE IF CaughtByEndpoint(e)
  THEN [state |-> "responded", response |-> <<"Error Occurred! ", e>>]
  ELSE [state |-> "escaped", response |-> <<>>]

(* ------------------------------- state --------------------------------- *)
VARIABLES
  coll,        \* the document collection read by this run
  fs,          \* the local directory tree: content of each fixed path
  registry,    \* the object at MODEL_PUSHER_S3_KEY in the bucket
  folder,      \* whether the folder object of create_folder exists
  s3_client,   \* the class-level handle S3Client.s3_client
  calls,       \* number of top-level invocations so far
  pc,          \* position of run_pipeline
  stage,       \* index in Stages of the stage to call or being run
  started,     \* stages started in the current run, in order
  active,      \* the stages being run
  ingArt, valArt, trArt, mtArt, evArt, pushArt,   \* locals of run_pipeline
  result,      \* the error run_pipeline raised, NoErr otherwise
  regAtStart,  \* registry when the current invocation began
  writes,      \* paths written during the current invocation
  uploads,     \* upload_file calls issued during the current invocation
  fits,        \* fit calls made during the current invocation
  last,        \* the last component call: operation, caller, outcome
  other        \* a second run of the pipeline on the same directory tree

pipelineVars ==
  <<coll, fs, registry, folder, s3_client, calls, pc, stage, started, active,
    ingArt, valArt, trArt, mtArt, evArt, pushArt,
    result, regAtStart, writes, uploads, fits, last, other>>

(* The constructors of S3Client and MongoDBClient, statement by statement, *)
(* as run by the threads of one process.                                   *)
VARIABLES
  handles,     \* class attribute -> the client object it holds, 0 for None
  created,     \* class attribute -> number of client objects created for it
  thr,         \* thread -> its position in a constructor and the instance it builds
  instances        \* class -> the instances constructed so far

clientVars == <<handles, created, thr, instances>>

(* Single objects followed on their own, outside a run.                    *)
VARIABLES
  rt,          \* one model bundle on its way to the registry key and back
  http,        \* the GET /train request being served and its response
  est          \* one project1Estimator instance and the remote loads it made

unitVars == <<rt, http, est>>

vars == <<pipelineVars, clientVars, unitVars>>

(* comp_err: the error leaving the component method; err: the error       *)
(* leaving the top-level call; ev: the catch events on the way.            *)
NoCall ==
  [op |-> "none", caller |-> "none", ok |-> TRUE, comp_err |-> NoErr, err |-> NoErr,
   ev |-> {}, aux |-> <<>>]

Call(op, caller, c, res, aux) ==
  [op |-> op, caller |-> caller, ok |-> res.ok, comp_err |-> c.err, err |-> res.err,
   ev |-> res.ev, aux |-> aux]

Changed(f, g) == {p \in Paths : f[p] # g[p]}

(* A train file already present in the directory tree, and a production    *)
(* model already present at the registry key.                              *)
StaleTrainFiles ==
  { Absent,
    Csv(Frame(2, SchemaColumns), "stale", 0),
    Csv(Frame(2, {"tenure", "Churn"}), "stale", 0) }

ProductionModel == [kind |-> "model", preprocessor |-> [kind |-> "preprocessor", fitted_on |-> "stale", run |-> 0], run |-> 0]

Collections == [rows : 0..MaxRows, cols : CollectionShapes]

(* Class attributes holding the shared handles (aws_connection.py:44-45,   *)
(* mongo_db_connect.py:18), in the order the constructor sets them.        *)
Classes == {"S3Client", "MongoDBClient"}

Attrs(c) == IF c = "S3Client" THEN <<"s3_resource", "s3_client">> ELSE <<"client">>

AllAttrs == {"s3_resource", "s3_client", "client"}

Threads == {"t1", "t2"}

IdleThread == [pc |-> "idle", cls |-> "none", k |-> 0, self |-> <<>>]

ClientInit ==
  /\ handles = [a \in AllAttrs |-> 0]
  /\ created = [a \in AllAttrs |-> 0]
  /\ thr = [t \in Threads |-> IdleThread]
  /\ instances = [c \in Classes |-> [started |-> 0, done |-> 0, held |-> {}, first |-> <<>>]]

\* the second run: the stage it is to call next (0: not started, 5: past training)
\* and the validation artifact it holds
NoOtherRun == [stage |-> 0, valArt |-> <<>>]

Init ==
  /\ coll = [rows |-> 0, cols |-> {"_id", "tenure", "Contract", "Churn"}]
  /\ \E t \in StaleTrainFiles : fs = [p \in Paths |-> IF p = "train" THEN t ELSE Absent]
  /\ registry \in {Absent, ProductionModel}
  /\ folder = FALSE
  /\ s3_client = "None"
  /\ calls = 0
  /\ pc = "idle"
  /\ stage = 1
  /\ started = <<>>
  /\ active = {}
  /\ ingArt = <<>> /\ valArt = <<>> /\ trArt = <<>>
  /\ mtArt = <<>> /\ evArt = <<>> /\ pushArt = <<>>
  /\ result = NoErr
  /\ regAtStart = registry
  /\ writes = {}
  /\ uploads = 0
  /\ fits = <<>>
  /\ last = NoCall
  /\ other = NoOtherRun
  /\ ClientInit
  /\ rt = NoBundle
  /\ http = NoRequest
  /\ est = NoEstimator

Idle == pc \in {"idle", "returned", "raised"}

(* What every top-level invocation starts from.                            *)
Begin ==
  /\ Idle
  /\ calls < MaxCalls
  /\ calls' = calls + 1
  /\ started' = <<>>
  /\ active' = {}
  /\ ingArt' = <<>> /\ valArt' = <<>> /\ trArt' = <<>>
  /\ mtArt' = <<>> /\ evArt' = <<>> /\ pushArt' = <<>>
  /\ result' = NoErr
  /\ regAtStart' = registry
  /\ stage' = 1

(* ---------------------------- run_pipeline ----------------------------- *)
\* start_<stage> and run_pipeline each catch and re-raise wrapped
Pipe(res, start, start_line, run_line) ==
  Rewrap(Rewrap(res, start, "training_pipeline.py", start_line),
         "run_pipeline", "training_pipeline.py", run_line)

\* a raising stage ends the run
NextPc_retry(ok) == "ready"

NextPc(ok) == IF ok THEN "ready" ELSE "raised"

\* the statements of run_pipeline follow each other
NextStage_skip(k) == IF k = 2 THEN 4 ELSE k + 1

NextStage(k) == k + 1

\* run_pipeline:310, the early return when the model is not accepted
PusherGate_open(ev_art) == TRUE

PusherGate(ev_art) == ev_art.is_model_accepted

StartRun ==
  /\ Begin
  /\ coll' \in Collections
  /\ pc' = "ready"
  /\ writes' = {} /\ uploads' = 0 /\ fits' = <<>>
  /\ last' = NoCall
  /\ UNCHANGED <<fs, registry, folder, s3_client>>
  /\ UNCHANGED <<clientVars, other, unitVars>>

CallStage ==
  /\ pc = "ready"
  /\ pc' = "in"
  /\ started' = Append(started, Stages[stage])
  /\ active' = active \cup {Stages[stage]}
  /\ UNCHANGED <<coll, fs, registry, folder, s3_client, calls, stage, ingArt, valArt,
                 trArt, mtArt,
                 evArt, pushArt, result, regAtStart, writes, uploads, fits, last>>
  /\ UNCHANGED <<clientVars, other, unitVars>>

(* The return of a stage to run_pipeline: the artifact, or the error.      *)
Return(res) ==
  /\ pc' = NextPc(res.ok)
  /\ stage' = IF res.ok THEN NextStage(stage) ELSE stage
  /\ result' = IF res.ok THEN result ELSE res.err
  /\ active' = active \ {Stages[stage]}
  /\ UNCHANGED <<coll, folder, calls, started, regAtStart>>

IngestionReturn ==
  /\ pc = "in" /\ stage = 1
  /\ \E fail \in IngestionFails :
       LET returns(c, res) ==
             /\ fs' = c.fs
             /\ ingArt' = c.art
             /\ writes' = writes \cup Changed(fs, c.fs)
             /\ last' = Call("initiate_data_ingestion", "run_pipeline", c, res,
                             [split_called |-> c.split_called, df |-> c.df])
             /\ Return(res)
           start_data_ingestion(c) == returns(c, Pipe(c, "start_data_ingestion", 100, 294))
       IN start_data_ingestion(initiate_data_ingestion(fs, coll, fail, calls))
  /\ UNCHANGED <<registry, s3_client, valArt, trArt, mtArt, evArt, pushArt, uploads, fits>>
  /\ UNCHANGED <<clientVars, other, unitVars>>

ValidationReturn ==
  /\ pc = "in" /\ stage = 2
  /\ \E fail \in ValidationFails, drift \in BOOLEAN :
       LET returns(c, res) ==
             /\ fs' = c.fs
             /\ valArt' = c.art
             /\ writes' = writes \cup Changed(fs, c.fs)
             /\ last' = Call("initiate_data_validation", "run_pipeline", c, res,
                             [drift_called |-> c.drift_called, read |-> c.read])
             /\ Return(res)
           start_data_validation(c) == returns(c, Pipe(c, "start_data_validation", 134, 295))
       IN start_data_validation(initiate_data_validation(fs, ingArt[1], fail, drift, calls))
  /\ UNCHANGED <<registry, s3_client, ingArt, trArt, mtArt, evArt, pushArt, uploads, fits>>
  /\ UNCHANGED <<clientVars, other, unitVars>>

TransformationReturn ==
  /\ pc = "in" /\ stage = 3
  /\ \E fail \in TransformationFails, resample \in Resamplings :
       LET returns(c, res) ==
             /\ fs' = c.fs
             /\ trArt' = c.art
             /\ writes' = writes \cup Changed(fs, c.fs)
             /\ fits' = fits \o c.fits
             /\ last' = Call("initiate_data_transformation", "run_pipeline", c, res,
                             [validation_status |-> valArt[1].validation_status])
             /\ Return(res)
           start_data_transformation(c) ==
             returns(c, Pipe(c, "start_data_transformation", 172, 298))
       IN start_data_transformation(
            initiate_data_transformation(fs, ingArt[1], valArt[1], fail, calls, resample))
  /\ UNCHANGED <<registry, s3_client, ingArt, valArt, mtArt, evArt, pushArt, uploads>>
  /\ UNCHANGED <<clientVars, other, unitVars>>

TrainerReturn ==
  /\ pc = "in" /\ stage = 4
  /\ \E fail \in TrainerFails, best_score \in Scores, f1 \in Scores :
       LET returns(c, res) ==
             /\ fs' = c.fs
             /\ mtArt' = c.art
             /\ writes' = writes \cup Changed(fs, c.fs)
             /\ last' = Call("initiate_model_trainer", "run_pipeline", c, res,
                             [best_score |-> best_score, fail |-> fail])
             /\ Return(res)
           start_model_trainer(c) == returns(c, Pipe(c, "start_model_trainer", 203, 302))
       IN start_model_trainer(initiate_model_trainer(fs, trArt[1], fail, best_score, f1, calls))
  /\ UNCHANGED <<registry, s3_client, ingArt, valArt, trArt, evArt, pushArt, uploads, fits>>
  /\ UNCHANGED <<clientVars, other, unitVars>>

EvaluationReturn ==
  /\ pc = "in" /\ stage = 5
  /\ \E fail \in EvaluationFails, prod_f1 \in Scores :
       LET returns(c, res) ==
             /\ evArt' = c.art
             /\ s3_client' = c.handle
             /\ last' = Call("initiate_model_evaluation", "run_pipeline", c, res,
                             [resp |-> c.resp, gets |-> c.gets, checked |-> c.checked])
             /\ IF res.ok /\ ~PusherGate(c.art[1])
                THEN /\ pc' = "returned"
                     /\ active' = active \ {Stages[stage]}
                     /\ UNCHANGED <<coll, folder, calls, started, regAtStart, stage, result>>
                ELSE Return(res)
           start_model_evaluation(c) == returns(c, Pipe(c, "start_model_evaluation", 239, 305))
       IN start_model_evaluation(
            initiate_model_evaluation(fs, registry, s3_client, ingArt[1], mtArt[1],
                                      fail, prod_f1))
  /\ UNCHANGED <<fs, registry, ingArt, valArt, trArt, mtArt, pushArt, writes, uploads, fits>>
  /\ UNCHANGED <<clientVars, other, unitVars>>

(* ModelPusher(...).initiate_model_pusher(): the constructor builds the    *)
(* storage service, outside any try block, then the upload runs.           *)
ModelPusher(f, reg, handle, ev_art, fail) ==
  LET built(s, c) ==
        IF ~s.ok
        THEN [ok |-> FALSE, reg |-> reg, line |-> 0, art |-> <<>>, handle |-> s.handle,
              upload_attempted |-> FALSE, err |-> s.err, ev |-> {}]
        ELSE [ok |-> c.ok, reg |-> c.reg, line |-> c.line, art |-> c.art, handle |-> s.handle,
              upload_attempted |-> TRUE, err |-> c.err, ev |-> c.ev]
  IN built(S3Client(handle, fail = "s3_client"), initiate_model_pusher(f, reg, ev_art, fail))

start_model_pusher(f, reg, handle, ev_art, fail) ==
  LET piped(r) ==
        [comp |-> r,
         res |-> Pipe(r, "start_model_pusher", IF r.upload_attempted THEN 270 ELSE 266, 314)]
  IN piped(ModelPusher(f, reg, handle, ev_art, fail))

PusherReturn ==
  /\ pc = "in" /\ stage = 6
  /\ \E fail \in PusherFails \cup {"s3_client"} :
       LET returns(c) ==
             /\ registry' = c.res.reg
             /\ pushArt' = c.res.art
             /\ s3_client' = c.res.handle
             /\ uploads' = uploads + (IF c.comp.upload_attempted THEN 1 ELSE 0)
             /\ last' = Call("initiate_model_pusher", "run_pipeline", c.comp, c.res,
                             [accepted |-> evArt[1].is_model_accepted,
                              upload_attempted |-> c.comp.upload_attempted])
             /\ pc' = IF c.res.ok THEN "returned" ELSE NextPc(FALSE)
             /\ result' = IF c.res.ok THEN result ELSE c.res.err
             /\ active' = active \ {Stages[stage]}
       IN returns(start_model_pusher(fs, registry, s3_client, evArt[1], fail))
  /\ UNCHANGED <<coll, fs, folder, calls, stage, started, regAtStart,
                 ingArt, valArt, trArt, mtArt, evArt, writes, fits>>
  /\ UNCHANGED <<clientVars, other, unitVars>>

(* --------------------- component-level callers ------------------------- *)
(* A caller other than run_pipeline builds a ModelEvaluationArtifact and   *)
(* runs the publishing component on it, or calls create_folder on a        *)
(* storage service it has instances.                                           *)
CallerArtifacts ==
  { [is_model_accepted |-> a, s3_model_path |-> MODEL_PUSHER_S3_KEY,
     trained_model_path |-> "model", changed_accuracy |-> IF a THEN 1 ELSE 0] :
    a \in BOOLEAN }

DirectPusher ==
  /\ Begin
  /\ \E art \in CallerArtifacts, fail \in PusherFails \cup {"s3_client"} :
       LET returns(c) ==
             /\ registry' = c.reg
             /\ s3_client' = c.handle
             /\ uploads' = IF c.upload_attempted THEN 1 ELSE 0
             /\ last' = Call("initiate_model_pusher", "direct", c, c,
                             [accepted |-> art.is_model_accepted,
                              upload_attempted |-> c.upload_attempted])
       IN returns(ModelPusher(fs, registry, s3_client, art, fail))
  /\ pc' = "idle"
  /\ writes' = {} /\ fits' = <<>>
  /\ UNCHANGED <<coll, fs, folder>>
  /\ UNCHANGED <<clientVars, other, unitVars>>

DirectCreateFolder ==
  /\ Begin
  /\ \E fail \in {"none", "forbidden", "network", "put"} :
       LET returns(load, c) ==
             /\ folder' = c.exists
             /\ last' = Call("create_folder", "direct", c, c, [load |-> load])
           called(load) == returns(load, create_folder(folder, load, fail = "put"))
       IN called(IF fail = "forbidden" THEN "403"
                 ELSE IF fail = "network" THEN "network"
                 ELSE IF folder THEN "ok" ELSE "404")
  /\ s3_client' = S3Client(s3_client, FALSE).handle
  /\ pc' = "idle"
  /\ writes' = {} /\ uploads' = 0 /\ fits' = <<>>
  /\ UNCHANGED <<coll, fs, registry>>
  /\ UNCHANGED <<clientVars, other, unitVars>>

Next ==
  \/ StartRun
  \/ CallStage
  \/ IngestionReturn
  \/ ValidationReturn
  \/ TransformationReturn
  \/ TrainerReturn
  \/ EvaluationReturn
  \/ PusherReturn
  \/ DirectPusher
  \/ DirectCreateFolder

Spec == Init /\ [][Next]_vars

(* Sequential pipeline runs only: no component is called outside a run.    *)
PipelineRunsNext ==
  \/ StartRun
  \/ CallStage
  \/ IngestionReturn
  \/ ValidationReturn
  \/ TransformationReturn
  \/ TrainerReturn
  \/ EvaluationReturn
  \/ PusherReturn

PipelineRunsSpec == Init /\ [][PipelineRunsNext]_vars

(* --------------------------- concurrent runs --------------------------- *)
(* A second run_pipeline, in another process, on the same directory tree   *)
(* and collection, interleaved with the first at the grain of a stage.     *)
(* Its stages are the same component calls; the contents it writes carry   *)
(* its own run number.  It is followed through training, the last stage    *)
(* that writes the directory tree; the metric its trainer reports stays    *)
(* in its own artifact and is not followed.                                *)
EndedOtherRun == [stage |-> 5, valArt |-> <<>>]

OtherStep(ok, fs1, nxt) ==
  /\ fs' = fs1
  /\ other' = IF ok THEN nxt ELSE EndedOtherRun
  /\ UNCHANGED <<coll, registry, folder, s3_client, calls, pc, stage, started, active,
                 ingArt, valArt, trArt, mtArt, evArt, pushArt, result, regAtStart, writes,
                 uploads, fits, last, clientVars, unitVars>>

OtherStartRun ==
  /\ other.stage = 0
  /\ calls > 0
  /\ OtherStep(TRUE, fs, [other EXCEPT !.stage = 1])

OtherIngestion ==
  /\ other.stage = 1
  /\ \E fail \in IngestionFails :
       LET returns(c) == OtherStep(c.ok, c.fs, [other EXCEPT !.stage = 2])
       IN returns(initiate_data_ingestion(fs, coll, fail, OtherRunId))

OtherValidation ==
  /\ other.stage = 2
  /\ \E fail \in ValidationFails, drift \in BOOLEAN :
       LET returns(c) == OtherStep(c.ok, c.fs, [stage |-> 3, valArt |-> c.art])
       IN returns(initiate_data_validation(fs, DataIngestionArtifact, fail, drift, OtherRunId))

OtherTransformation ==
  /\ other.stage = 3
  /\ \E fail \in TransformationFails :
       LET returns(c) == OtherStep(c.ok, c.fs, [other EXCEPT !.stage = 4])
       IN returns(initiate_data_transformation(fs, DataIngestionArtifact, other.valArt[1],
                                               fail, OtherRunId, NoResampling))

OtherTrainer ==
  /\ other.stage = 4
  /\ \E fail \in TrainerFails, best_score \in Scores :
       LET returns(c) == OtherStep(c.ok, c.fs, EndedOtherRun)
       IN returns(initiate_model_trainer(fs, DataTransformationArtifact, fail, best_score,
                                         MaxScore, OtherRunId))

ConcurrentNext ==
  \/ (calls = 0 /\ StartRun)
  \/ CallStage
  \/ IngestionReturn
  \/ ValidationReturn
  \/ TransformationReturn
  \/ TrainerReturn
  \/ EvaluationReturn
  \/ PusherReturn
  \/ OtherStartRun
  \/ OtherIngestion
  \/ OtherValidation
  \/ OtherTransformation
  \/ OtherTrainer

\* the two runs start with nothing published yet
ConcurrentInit == Init /\ registry = Absent

ConcurrentSpec == ConcurrentInit /\ [][ConcurrentNext]_vars

(* ----------------------- predicts on one instance ---------------------- *)
(* An estimator is made and predict is called on it again and again,       *)
(* while the object at the registry key may be replaced or removed.        *)
NewEstimator ==
  /\ ~est.made
  /\ est' = project1Estimator
  /\ UNCHANGED <<pipelineVars, clientVars, rt, http>>

EstimatorPredict ==
  /\ est.made
  /\ est.predicts < MaxPredicts
  /\ \E fail \in EstimatorFails : est' = estimator_predict(est, registry, fail)
  /\ UNCHANGED <<pipelineVars, clientVars, rt, http>>

RegistryReplaced ==
  /\ est.made
  /\ registry' \in {Absent, ProductionModel} \ {registry}
  /\ UNCHANGED <<coll, fs, folder, s3_client, calls, pc, stage, started, active,
                 ingArt, valArt, trArt, mtArt, evArt, pushArt, result, regAtStart, writes,
                 uploads, fits, last, other, clientVars, unitVars>>

EstimatorNext ==
  \/ NewEstimator
  \/ EstimatorPredict
  \/ RegistryReplaced

EstimatorSpec == Init /\ [][EstimatorNext]_vars

(* ------------------------------ GET /train ----------------------------- *)
(* trainRouteClient: TrainPipeline(), whose configuration constructors may *)
(* raise, then run_pipeline, then the response.  Requests are served one   *)
(* after the other.                                                        *)
Respond(r) ==
  /\ http' = [http EXCEPT !.state = r.state, !.response = r.response]
  /\ UNCHANGED <<pipelineVars, clientVars, rt, est>>

trainRouteClient ==
  /\ http.state \in {"idle", "responded"}
  /\ Idle
  /\ calls < MaxCalls
  /\ \E failing \in BOOLEAN :
       LET constructed(r) ==
             /\ http' = [state |-> r.state, run |-> calls + 1, response |-> r.response]
             /\ UNCHANGED <<pipelineVars, clientVars, rt, est>>
       IN IF failing
          THEN constructed(TrainResponse(TRUE, PlainErr("Exception", <<>>)))
          ELSE constructed([state |-> "called", response |-> <<>>])

trainRouteReturn ==
  /\ http.state = "called"
  /\ calls = http.run
  /\ pc \in {"returned", "raised"}
  /\ Respond(TrainResponse(pc = "raised", result))

AppNext ==
  \/ trainRouteClient
  \/ (http.state = "called" /\ calls < http.run /\ StartRun)
  \/ CallStage
  \/ IngestionReturn
  \/ ValidationReturn
  \/ TransformationReturn
  \/ TrainerReturn
  \/ EvaluationReturn
  \/ PusherReturn
  \/ trainRouteReturn

AppSpec == Init /\ [][AppNext]_vars

(* ------------------------- bundle round trip --------------------------- *)
(* One bundle saved with save_object, uploaded to the registry key with    *)
(* save_model and read back with load_model; the fixed frame is chosen     *)
(* with the bundle.  bucket maps the keys of the bucket to their bytes.    *)
RoundTripStep(nxt) ==
  /\ rt' = nxt
  /\ UNCHANGED <<pipelineVars, clientVars, http, est>>

MakeBundle ==
  /\ rt.stage = "none"
  /\ \E obj \in Bundles, frame \in Frames :
       RoundTripStep([rt EXCEPT !.stage = "made", !.obj = <<obj>>, !.frame = frame])

SaveObject ==
  /\ rt.stage = "made"
  /\ \E failing \in BOOLEAN :
       RoundTripStep(IF failing THEN [rt EXCEPT !.stage = "raised"]
                     ELSE [rt EXCEPT !.stage = "saved", !.file = <<dill_dump(rt.obj[1])>>])

UploadFile ==
  /\ rt.stage = "saved"
  /\ \E failing \in BOOLEAN :
       RoundTripStep(IF failing THEN [rt EXCEPT !.stage = "raised"]
                     ELSE [rt EXCEPT !.stage = "uploaded",
                                     !.bucket = (MODEL_PUSHER_S3_KEY :> rt.file[1])])

LoadModel ==
  /\ rt.stage = "uploaded"
  /\ \E failing \in BOOLEAN :
       LET returns(r) ==
             RoundTripStep(IF r.ok THEN [rt EXCEPT !.stage = "loaded", !.loaded = r.obj]
                           ELSE [rt EXCEPT !.stage = "raised"])
       IN returns(load_model(rt.bucket, MODEL_PUSHER_S3_KEY, failing))

RoundTripNext ==
  \/ MakeBundle
  \/ SaveObject
  \/ UploadFile
  \/ LoadModel

RoundTripSpec == Init /\ [][RoundTripNext]_vars

(* ----------------------- shared client handles ------------------------- *)
Constructions == instances["S3Client"].started + instances["MongoDBClient"].started

\* the test at aws_connection.py:71 and mongo_db_connect.py:22
HandleUnset_always(c) == TRUE

HandleUnset(c) == \E i \in 1..Len(Attrs(c)) : handles[Attrs(c)[i]] = 0

\* a constructor raises: no instance is instances
RaiseInit(t) == thr' = [thr EXCEPT ![t] = IdleThread]

(* A thread calls the constructor of a class.  Nothing is acquired on      *)
(* entry.                                                                  *)
Construct(t) ==
  /\ thr[t].pc = "idle"
  /\ Constructions < MaxConstructions
  /\ \E c \in Classes :
       /\ thr' = [thr EXCEPT ![t] = [pc |-> "check", cls |-> c, k |-> 1,
                                     self |-> [i \in 1..Len(Attrs(c)) |-> 0]]]
       /\ instances' = [instances EXCEPT ![c].started = @ + 1]
  /\ UNCHANGED <<handles, created, pipelineVars, unitVars>>

\* if S3Client.s3_resource == None or S3Client.s3_client == None / if MongoDBClient.client is None
CheckHandle(t) ==
  /\ thr[t].pc = "check"
  /\ thr' = [thr EXCEPT ![t].pc = IF HandleUnset(thr[t].cls) THEN "env" ELSE "assign"]
  /\ UNCHANGED <<handles, created, instances, pipelineVars, unitVars>>

\* os.getenv of the credentials or the URL; a missing one raises
ReadEnv(t) ==
  /\ thr[t].pc = "env"
  /\ \E missing \in BOOLEAN :
       IF missing THEN RaiseInit(t) ELSE thr' = [thr EXCEPT ![t].pc = "create"]
  /\ UNCHANGED <<handles, created, instances, pipelineVars, unitVars>>

(* boto3.resource(...), boto3.client(...), pymongo.MongoClient(...): the   *)
(* k-th class attribute is set to a newly created object.  The attribute   *)
(* is not read again between the test and the assignment.                  *)
CreateClient_rechecking(t) ==
  /\ thr[t].pc = "create"
  /\ \E failing \in BOOLEAN :
       IF failing
       THEN RaiseInit(t) /\ UNCHANGED <<handles, created>>
       ELSE /\ created' = [created EXCEPT ![Attrs(thr[t].cls)[thr[t].k]] =
                             IF handles[Attrs(thr[t].cls)[thr[t].k]] = 0 THEN @ + 1 ELSE @]
            /\ handles' = [handles EXCEPT ![Attrs(thr[t].cls)[thr[t].k]] =
                             IF @ = 0 THEN created[Attrs(thr[t].cls)[thr[t].k]] + 1 ELSE @]
            /\ thr' = [thr EXCEPT ![t] =
                         IF thr[t].k < Len(Attrs(thr[t].cls))
                         THEN [@ EXCEPT !.k = @ + 1]
                         ELSE [@ EXCEPT !.pc = "assign", !.k = 1]]
  /\ UNCHANGED <<instances, pipelineVars, unitVars>>

CreateClient(t) ==
  /\ thr[t].pc = "create"
  /\ \E failing \in BOOLEAN :
       IF failing
       THEN RaiseInit(t) /\ UNCHANGED <<handles, created>>
       ELSE /\ created' = [created EXCEPT ![Attrs(thr[t].cls)[thr[t].k]] = @ + 1]
            /\ handles' = [handles EXCEPT ![Attrs(thr[t].cls)[thr[t].k]] =
                             created[Attrs(thr[t].cls)[thr[t].k]] + 1]
            /\ thr' = [thr EXCEPT ![t] =
                         IF thr[t].k < Len(Attrs(thr[t].cls))
                         THEN [@ EXCEPT !.k = @ + 1]
                         ELSE [@ EXCEPT !.pc = "assign", !.k = 1]]
  /\ UNCHANGED <<instances, pipelineVars, unitVars>>

\* self.<attribute> = <Class>.<attribute>
AssignHandle(t) ==
  /\ thr[t].pc = "assign"
  /\ thr' = [thr EXCEPT ![t] =
               [@ EXCEPT !.self[thr[t].k] = handles[Attrs(thr[t].cls)[thr[t].k]],
                         !.k = @ + 1,
                         !.pc = IF thr[t].k < Len(Attrs(thr[t].cls)) THEN "assign" ELSE "finish"]]
  /\ UNCHANGED <<handles, created, instances, pipelineVars, unitVars>>

(* The constructor returns its instance; MongoDBClient first looks up the  *)
(* database (mongo_db_connect.py:29), which may raise.                     *)
FinishInit(t) ==
  /\ thr[t].pc = "finish"
  /\ \E failing \in (IF thr[t].cls = "MongoDBClient" THEN BOOLEAN ELSE {FALSE}) :
       IF failing
       THEN UNCHANGED instances
       ELSE instances' = [instances EXCEPT ![thr[t].cls] =
                        [@ EXCEPT !.done = @ + 1,
                                  !.held = @ \cup {thr[t].self},
                                  !.first = IF @ = <<>> THEN <<created>> ELSE @]]
  /\ RaiseInit(t)
  /\ UNCHANGED <<handles, created, pipelineVars, unitVars>>

ConstructorStep(t) ==
  \/ Construct(t)
  \/ CheckHandle(t)
  \/ ReadEnv(t)
  \/ CreateClient(t)
  \/ AssignHandle(t)
  \/ FinishInit(t)

\* one thread constructs clients
SingleThreadNext == ConstructorStep("t1")

SingleThreadSpec == Init /\ [][SingleThreadNext]_vars

\* the threads of the process construct clients
ThreadsNext == \E t \in Threads : ConstructorStep(t)

ThreadsSpec == Init /\ [][ThreadsNext]_vars

(* ============================== claims ================================= *)
Range(q) == {q[i] : i \in 1..Len(q)}

Artifacts == <<ingArt, valArt, trArt, mtArt, evArt, pushArt>>

EvaluatedResponse == last.op = "initiate_model_evaluation" /\ last.aux.resp # <<>>

Baseline(resp) == IF resp.best_model_f1_score = <<>> THEN 0 ELSE resp.best_model_f1_score[1]

(* C1: whenever evaluate_model has produced a response, is_model_accepted  *)
(* is true exactly when the new model's F1 is strictly greater than the    *)
(* baseline, the baseline being the production model's F1 when one was     *)
(* found and 0 otherwise; with nothing at the registry key the baseline is *)
(* 0.                                                                      *)
C1_AcceptedIffStrictlyBetter ==
  EvaluatedResponse =>
    LET resp == last.aux.resp[1]
    IN /\ resp.trained_model_f1_score = mtArt[1].metric_artifact.f1_score
       /\ resp.is_model_accepted <=> (resp.trained_model_f1_score > Baseline(resp))
       /\ (registry.kind = "absent" => resp.best_model_f1_score = <<>>)
       /\ (resp.best_model_f1_score = <<>> =>
             (resp.is_model_accepted <=> resp.trained_model_f1_score > 0))

\* the boundary: a production model is present and the new F1 equals its F1
C1_Witness_EqualScoreRejected ==
  /\ EvaluatedResponse
  /\ last.aux.resp[1].best_model_f1_score = <<last.aux.resp[1].trained_model_f1_score>>
  /\ ~last.aux.resp[1].is_model_accepted

(* C2: in a run whose evaluation artifact has is_model_accepted = false,   *)
(* the publishing stage is never started, no upload is issued, no pusher   *)
(* artifact exists and the object at the registry key is the one that was  *)
(* there when the run began.                                               *)
C2_RejectedRunPublishesNothing ==
  (evArt # <<>> /\ ~evArt[1].is_model_accepted) =>
    /\ "publishing" \notin Range(started)
    /\ uploads = 0
    /\ pushArt = <<>>
    /\ registry = regAtStart
    /\ pc = "returned"

C2_Witness_RejectedRunReturned ==
  /\ pc = "returned"
  /\ evArt # <<>>
  /\ ~evArt[1].is_model_accepted
  /\ regAtStart.kind = "model"

(* C3 as claimed: the publishing component changes the object at the       *)
(* registry key only when the artifact it was given has is_model_accepted  *)
(* = true, whoever the caller is.                                          *)
C3_Claimed_PusherUploadsOnlyAccepted ==
  (last.op = "initiate_model_pusher" /\ registry # regAtStart) => last.aux.accepted

(* C3 as amended: initiate_model_pusher does not read is_model_accepted;   *)
(* whenever it returns normally the registry key holds the file named by   *)
(* trained_model_path, for either value of the flag.  Only run_pipeline    *)
(* guarantees the flag: every call it makes carries an accepted artifact.  *)
C3_PusherUploadsWhateverTheFlag ==
  last.op = "initiate_model_pusher" =>
    /\ (last.caller = "run_pipeline" => last.aux.accepted)
    /\ (last.ok => (registry = fs["model"] /\ uploads = 1))

C3_Witness_DirectCallUploadsRejected ==
  /\ last.op = "initiate_model_pusher"
  /\ last.caller = "direct"
  /\ ~last.aux.accepted
  /\ last.ok
  /\ registry # regAtStart

(* C4: the stages of a run start in the order Ingestion, Validation,       *)
(* Transformation, Training, Evaluation, Publishing, each at most once; a  *)
(* stage has started only if every earlier stage has returned its          *)
(* artifact; at most one stage is active, and it is the last one started.  *)
C4_StagesStrictlySequential ==
  /\ started = SubSeq(Stages, 1, Len(started))
  /\ \A k \in 2..Len(started) : Artifacts[k - 1] # <<>>
  /\ Cardinality(active) <= 1
  /\ \A a \in active : Len(started) > 0 /\ a = started[Len(started)] /\ pc = "in"
  /\ pc = "in" => active # {}

C4_Witness_PublishingActive ==
  /\ started = Stages
  /\ active = {"publishing"}

(* C5: once a stage of a run has raised, run_pipeline has terminated by    *)
(* raising custom_exception, the failed stage is the last one started and  *)
(* left no artifact, and for the rest of that run no stage is started and  *)
(* nothing more is written locally or remotely.                            *)
C5_FailureAbortsRun ==
  /\ []((last.caller = "run_pipeline" /\ ~last.ok) =>
          /\ pc = "raised"
          /\ active = {}
          /\ result.kind = "custom_exception"
          /\ result = last.err
          /\ Len(started) = stage
          /\ Artifacts[stage] = <<>>)
  /\ [][(pc = "raised" /\ calls' = calls) =>
          UNCHANGED <<pc, started, active, fs, registry, result>>]_vars

C5_Witness_TransformationRaised ==
  /\ pc = "raised"
  /\ started = <<"ingestion", "validation", "transformation">>
  /\ last.op = "initiate_data_transformation"

(* C6: in a run whose validation artifact has validation_status = false,   *)
(* no transformer is fitted, neither the transformer object nor the        *)
(* transformed arrays are written, no transformation artifact exists, and  *)
(* Training, Evaluation and Publishing are never started; once the         *)
(* transformation stage has returned, the run has raised an error whose    *)
(* message is the validation message.                                      *)
C6_InvalidDataStopsTransformation ==
  (valArt # <<>> /\ ~valArt[1].validation_status) =>
    /\ fits = <<>>
    /\ writes \cap {"preprocessor", "train_arr", "test_arr", "model"} = {}
    /\ trArt = <<>>
    /\ Range(started) \cap {"training", "evaluation", "publishing"} = {}
    /\ uploads = 0
    /\ ("transformation" \in Range(started) /\ active = {}) =>
          /\ pc = "raised"
          /\ last.op = "initiate_data_transformation"
          /\ last.comp_err.kind = "custom_exception"
          /\ last.comp_err.root = "Exception"
          /\ last.comp_err.msg = valArt[1].message
          /\ result.msg = valArt[1].message

C6_Witness_TransformationRefused ==
  /\ valArt # <<>>
  /\ ~valArt[1].validation_status
  /\ pc = "raised"
  /\ last.op = "initiate_data_transformation"
  /\ Len(result.msg) = 2

TrainerReturned == last.op = "initiate_model_trainer" /\ last.caller = "run_pipeline"

(* C7: when initiate_model_trainer has returned to run_pipeline: if the    *)
(* best score of the model search was strictly below the expected score,   *)
(* it raised, wrote no model file and produced no artifact; if the best    *)
(* score was equal to or above the expected score and no library call      *)
(* failed, the bundle of this run is in the model file and the artifact    *)
(* naming that file was returned.                                          *)
C7_TrainerThreshold ==
  TrainerReturned =>
    /\ last.aux.best_score < MODEL_TRAINER_EXPECTED_SCORE =>
          /\ ~last.ok
          /\ "model" \notin writes
          /\ mtArt = <<>>
          /\ pc = "raised"
    /\ (last.aux.best_score < MODEL_TRAINER_EXPECTED_SCORE /\ last.aux.fail = "none") =>
          /\ last.comp_err.root = "Exception"
          /\ last.comp_err.msg = <<"No best model found with score more than base score">>
    /\ (last.aux.best_score >= MODEL_TRAINER_EXPECTED_SCORE /\ last.aux.fail = "none") =>
          /\ last.ok
          /\ "model" \in writes
          /\ fs["model"].kind = "model"
          /\ fs["model"].run = calls
          /\ fs["model"].preprocessor = fs["preprocessor"]
          /\ mtArt # <<>>
          /\ mtArt[1].trained_model_file_path = "model"

\* the boundary: a best score equal to the expected score passes
C7_Witness_ScoreEqualToExpectedPersists ==
  /\ TrainerReturned
  /\ last.aux.best_score = MODEL_TRAINER_EXPECTED_SCORE
  /\ last.ok
  /\ "model" \in writes

IngestionReturned == last.op = "initiate_data_ingestion"

(* C8: when the collection is empty and ingestion has returned, it raised  *)
(* without invoking the train/test split, wrote neither the train nor the  *)
(* test file, produced no artifact, and no later stage has started.        *)
C8_EmptyCollectionRaisesBeforeSplit ==
  (coll.rows = 0 /\ IngestionReturned) =>
    /\ ~last.ok
    /\ ~last.aux.split_called
    /\ writes \cap {"train", "test"} = {}
    /\ ingArt = <<>>
    /\ pc = "raised"
    /\ started = <<"ingestion">>

C8_Witness_EmptyCollectionRaised ==
  /\ coll.rows = 0
  /\ IngestionReturned
  /\ last.comp_err.root = "ValueError"
  /\ "feature_store" \in writes

(* The two business-rule failures, recognised by the message they raise.   *)
EmptyDatasetFailure ==
  /\ last.op = "initiate_data_ingestion"
  /\ ~last.ok
  /\ last.comp_err.msg = <<"The dataframe fetched from Mongo is empty. Please check the data loading process">>

BelowExpectedFailure ==
  /\ last.op = "initiate_model_trainer"
  /\ ~last.ok
  /\ last.comp_err.msg = <<"No best model found with score more than base score">>

(* C9 as claimed: the empty-dataset failure of ingestion and the           *)
(* below-expected-score failure of training reach the caller of the stage  *)
(* as plain errors, not as custom_exception.                               *)
C9_Claimed_BusinessFailuresReachCallerPlain ==
  (EmptyDatasetFailure \/ BelowExpectedFailure) => last.comp_err.kind # "custom_exception"

(* C9 as amended: the two business-rule failures are raised as plain       *)
(* errors (ValueError, Exception) inside the try block of the stage        *)
(* method, are caught by that method's own handler, and reach the caller   *)
(* of the stage wrapped as custom_exception.                               *)
C9_BusinessFailuresReachCallerWrapped ==
  /\ EmptyDatasetFailure =>
       /\ last.comp_err.kind = "custom_exception"
       /\ last.comp_err.root = "ValueError"
       /\ last.comp_err.file = "data_ingestion.py"
       /\ [handler |-> "initiate_data_ingestion", caught |-> "ValueError",
           outcome |-> "custom_exception"] \in last.ev
  /\ BelowExpectedFailure =>
       /\ last.comp_err.kind = "custom_exception"
       /\ last.comp_err.root = "Exception"
       /\ last.comp_err.file = "model_trainer.py"
       /\ [handler |-> "initiate_model_trainer", caught |-> "Exception",
           outcome |-> "custom_exception"] \in last.ev

C9_Witness_BelowExpectedWrapped ==
  /\ BelowExpectedFailure
  /\ last.comp_err.kind = "custom_exception"
  /\ last.aux.best_score < MODEL_TRAINER_EXPECTED_SCORE

ValidationReturned == last.op = "initiate_data_validation" /\ last.aux.read # <<>>

\* the four schema checks, on the frames the validation read
FailedChecks ==
  LET train_df == last.aux.read[1]
      test_df == last.aux.read[2]
  IN (IF Cardinality(train_df.cols) = Cardinality(SchemaColumns) THEN 0 ELSE 1) +
     (IF Cardinality(test_df.cols) = Cardinality(SchemaColumns) THEN 0 ELSE 1) +
     (IF SchemaNumericalColumns \cup SchemaCategoricalColumns \subseteq train_df.cols
      THEN 0 ELSE 1) +
     (IF SchemaNumericalColumns \cup SchemaCategoricalColumns \subseteq test_df.cols
      THEN 0 ELSE 1)

(* C11: when initiate_data_validation returns its artifact,                *)
(* validation_status is true exactly when the column count of the train    *)
(* frame and of the test frame equals the schema's declared count and both *)
(* frames hold every required column; a frame whose column count differs   *)
(* gives status false whatever its columns are; and all four checks are    *)
(* evaluated: the message carries one entry per failed check.              *)
C11_StatusIffAllFourChecksPass ==
  (ValidationReturned /\ last.ok) =>
    /\ valArt[1].validation_status <=> (FailedChecks = 0)
    /\ \A i \in 1..2 :
         Cardinality(last.aux.read[i].cols) # Cardinality(SchemaColumns) =>
           ~valArt[1].validation_status
    /\ ~valArt[1].validation_status => Len(valArt[1].message) = FailedChecks

\* a frame holding every required column and one more fails on the count alone,
\* and a frame failing both of its checks is reported twice
C11_Witness_CountAloneFails ==
  /\ ValidationReturned /\ last.ok
  /\ ~valArt[1].validation_status
  /\ SchemaColumns \subseteq last.aux.read[2].cols
  /\ Len(valArt[1].message) = 3

(* C12: in a validation call, drift detection is invoked only when all     *)
(* four schema checks passed, and then it is invoked; when a check failed  *)
(* it is not invoked and the drift report file is not written by the run.  *)
C12_DriftOnlyWhenSchemaChecksPass ==
  ValidationReturned =>
    /\ last.aux.drift_called <=> (FailedChecks = 0)
    /\ "drift_report" \in writes => (FailedChecks = 0 /\ last.aux.drift_called)
    /\ FailedChecks # 0 => fs["drift_report"].kind = "absent" \/ fs["drift_report"].run # calls

C12_Witness_SchemaFailedNoDrift ==
  /\ ValidationReturned /\ last.ok
  /\ FailedChecks # 0
  /\ ~last.aux.drift_called
  /\ "drift_report" \notin writes

(* C13 as claimed: after a successful ingestion of a non-empty dataset the *)
(* file at the artifact's train path and the file at its test path exist   *)
(* and their row counts add up to the number of ingested rows.             *)
C13_Claimed_TrainPlusTestRowsEqualIngested ==
  (IngestionReturned /\ last.ok /\ coll.rows > 0) =>
    /\ fs[ingArt[1].trained_file_path].kind = "csv"
    /\ fs[ingArt[1].test_file_path].kind = "csv"
    /\ fs[ingArt[1].trained_file_path].rows + fs[ingArt[1].test_file_path].rows = coll.rows

(* C14: when the collection's documents carry _id, the frame returned by   *)
(* export_collection_as_dataframe does not contain it, and neither does    *)
(* any of the feature-store, train and test files written by this          *)
(* ingestion.                                                              *)
C14_IdentityFieldNeverIngested ==
  (IngestionReturned /\ "_id" \in coll.cols) =>
    /\ "_id" \notin last.aux.df.cols
    /\ \A p \in {"feature_store", "train", "test"} :
         (p \in writes /\ fs[p].kind = "csv") => "_id" \notin fs[p].cols

C14_Witness_IdDroppedFromWrittenFiles ==
  /\ IngestionReturned /\ last.ok
  /\ "_id" \in coll.cols
  /\ coll.rows > 0
  /\ last.aux.df.cols = coll.cols \ {"_id"}
  /\ {"feature_store", "test"} \subseteq writes

Held(c) == instances[c].held

(* C15: with one thread constructing, for S3Client and for MongoDBClient:  *)
(* once a construction has succeeded, no client object is created any      *)
(* more, every instance constructed holds the same handles, and they are   *)
(* the handles the class holds.                                            *)
C15_SingleThreadedClientCreatedOnce ==
  \A c \in Classes :
    instances[c].first # <<>> =>
      /\ \A i \in 1..Len(Attrs(c)) : created[Attrs(c)[i]] = instances[c].first[1][Attrs(c)[i]]
      /\ Cardinality(Held(c)) = 1
      /\ \A h \in Held(c) : \A i \in 1..Len(Attrs(c)) : h[i] = handles[Attrs(c)[i]] /\ h[i] # 0

C15_Witness_ThreeInstancesOneClient ==
  /\ instances["S3Client"].done = 3
  /\ created["s3_client"] = 1
  /\ Held("S3Client") = {<<1, 1>>}

(* C16: nothing ties a file in the fixed directory tree to the run that    *)
(* wrote it.  When the trainer of a run is called and arrays and a         *)
(* transformer object are at the fixed paths, it loads them and bundles    *)
(* that transformer object into its model file, whichever run wrote them;  *)
(* with a second run interleaved, the first run's trainer so reads a       *)
(* transformer object written by the second run after its own              *)
(* transformation stage had written one.                                   *)
C16_TrainerLoadsWhateverIsAtThePath ==
  [][(/\ pc = "in" /\ stage = 4 /\ pc' # "in"
      /\ last'.aux.fail = "none"
      /\ ~BelowExpected(last'.aux.best_score)
      /\ fs["train_arr"].kind = "npy"
      /\ fs["test_arr"].kind = "npy"
      /\ fs["preprocessor"].kind = "preprocessor")
     => /\ last'.ok
        /\ fs'["model"].run = calls
        /\ fs'["model"].preprocessor = fs["preprocessor"]]_vars

C16_Witness_TrainerReadOtherRunsTransformer ==
  /\ TrainerReturned /\ last.ok
  /\ trArt # <<>>
  /\ fs["model"].kind = "model"
  /\ fs["model"].run = calls
  /\ fs["model"].preprocessor.run = OtherRunId

(* C17: nothing guards the shared handle.  A thread that found the handle  *)
(* unset goes on, unless a call raises, to create a new client object and  *)
(* to store it in the class attribute, whatever another thread has stored  *)
(* there since the test; the test itself passes only on what the          *)
(* attributes hold at that moment.                                         *)
C17_UnguardedHandleCreation ==
  [][\A t \in Threads :
       /\ (thr[t].pc = "create" /\ thr'[t] # thr[t] /\ thr'[t].pc # "idle") =>
             /\ created'[Attrs(thr[t].cls)[thr[t].k]] = created[Attrs(thr[t].cls)[thr[t].k]] + 1
             /\ handles'[Attrs(thr[t].cls)[thr[t].k]] = created'[Attrs(thr[t].cls)[thr[t].k]]
       /\ (thr[t].pc = "check" /\ thr'[t].pc = "env") => HandleUnset(thr[t].cls)]_vars

\* two threads passed the test, each created a client, and two instances of
\* the class hold different handles
C17_Witness_TwoThreadsTwoClients ==
  /\ created["client"] = 2
  /\ Held("MongoDBClient") = {<<1>>, <<2>>}
  /\ created["s3_client"] = 0

(* C18: over sequential pipeline runs the registry key holds the bundle of *)
(* the most recent run that published.  The object at the key changes only *)
(* in the publishing stage of a run whose evaluation accepted the model,   *)
(* and then becomes the model file of that run, in place of what was        *)
(* there; and a publishing stage that returns leaves this run's bundle at  *)
(* the key.                                                                *)
C18_RegistryHoldsLatestPublishedBundle ==
  /\ []((last.op = "initiate_model_pusher" /\ last.ok) =>
          (registry = fs["model"] /\ registry.run = calls))
  /\ [][(registry' # registry) =>
          /\ pc = "in" /\ stage = 6
          /\ evArt[1].is_model_accepted
          /\ registry' = fs["model"]
          /\ registry'.run = calls]_vars

C18_Witness_SecondPublishReplacedFirst ==
  /\ last.op = "initiate_model_pusher" /\ last.ok
  /\ regAtStart.kind = "model" /\ regAtStart.run = 1
  /\ calls = 2
  /\ registry.run = 2

(* C19: the production model is fetched only after the existence check    *)
(* returned true.  Whenever evaluation issued a get-object request the     *)
(* check had returned true; when the check returned false no get-object    *)
(* request was issued, the comparison was made, and its baseline is 0.     *)
C19_ModelFetchedOnlyAfterCheckReturnedTrue ==
  last.op = "initiate_model_evaluation" =>
    /\ last.aux.gets > 0 => last.aux.checked = <<TRUE>>
    /\ last.aux.checked = <<FALSE>> =>
          /\ last.aux.gets = 0
          /\ last.aux.resp # <<>>
          /\ last.aux.resp[1].best_model_f1_score = <<>>
          /\ Baseline(last.aux.resp[1]) = 0

C19_Witness_CheckFalseBaselineZero ==
  /\ last.op = "initiate_model_evaluation"
  /\ last.aux.checked = <<FALSE>>
  /\ last.aux.gets = 0
  /\ Baseline(last.aux.resp[1]) = 0
  /\ last.aux.resp[1].trained_model_f1_score > 0

\* what may be at the trained model's path instead of what is there
OtherModelFiles == {Absent, ProductionModel}

(* C20: the new model's F1 in the response is the f1_score of the trainer  *)
(* artifact of the same run, and evaluation does not depend on the trained *)
(* model file: called with anything else, or nothing, at the trained       *)
(* model's path, it returns the same outcome for every input.              *)
C20_NewScoreIsStoredMetricModelFileUnread ==
  /\ (EvaluatedResponse /\ last.caller = "run_pipeline") =>
        /\ mtArt # <<>>
        /\ last.aux.resp[1].trained_model_f1_score = mtArt[1].metric_artifact.f1_score
  /\ (pc = "in" /\ stage = 5) =>
        \A fail \in EvaluationFails, prod_f1 \in Scores, m \in OtherModelFiles :
          initiate_model_evaluation([fs EXCEPT ![mtArt[1].trained_model_file_path] = m],
                                    registry, s3_client, ingArt[1], mtArt[1], fail, prod_f1)
            = initiate_model_evaluation(fs, registry, s3_client, ingArt[1], mtArt[1],
                                        fail, prod_f1)

C20_Witness_StoredMetricUsed ==
  /\ EvaluatedResponse /\ last.caller = "run_pipeline" /\ last.ok
  /\ last.aux.resp[1].trained_model_f1_score = mtArt[1].metric_artifact.f1_score
  /\ last.aux.resp[1].trained_model_f1_score >= MODEL_TRAINER_EXPECTED_SCORE
  /\ fs[mtArt[1].trained_model_file_path].run = calls
  /\ writes \cap {mtArt[1].trained_model_file_path} # {}

TransformationReturned ==
  last.op = "initiate_data_transformation" /\ last.caller = "run_pipeline"

PreprocessorFits == {i \in 1..Len(fits) : fits[i].obj = "preprocessor"}

\* another frame that may be at the test path
OtherTestFiles == {Csv(Frame(1, SchemaColumns), "other", 0)}

(* C22: the transformation stage fits the transformer at most once, and    *)
(* once when it returns normally, on the frame read from the train path    *)
(* and never on the frame read from the test path; the transformer object  *)
(* it saves is that fitted state, and it is the same whatever frame is at  *)
(* the test path.                                                          *)
C22_TransformerFittedOnceOnTrainFrame ==
  /\ TransformationReturned =>
        /\ Cardinality(PreprocessorFits) <= 1
        /\ last.ok => Cardinality(PreprocessorFits) = 1
        /\ \A i \in PreprocessorFits :
              /\ i = 1
              /\ fits[i].on = fs[ingArt[1].trained_file_path].part
              /\ fits[i].on # fs[ingArt[1].test_file_path].part
        /\ last.ok => fs["preprocessor"].fitted_on = fits[1].on
  /\ (pc = "in" /\ stage = 3) =>
        \A fail \in TransformationFails, t \in OtherTestFiles, resample \in Resamplings :
          LET same(a, b) == (a.ok /\ b.ok) => a.fs["preprocessor"] = b.fs["preprocessor"]
          IN same(initiate_data_transformation(fs, ingArt[1], valArt[1], fail, calls,
                                               resample),
                  initiate_data_transformation([fs EXCEPT ![ingArt[1].test_file_path] = t],
                                               ingArt[1], valArt[1], fail, calls, resample))

C22_Witness_FittedOnTrainTestTransformed ==
  /\ TransformationReturned /\ last.ok
  /\ fits[1] = [obj |-> "preprocessor", on |-> fs["train"].part]
  /\ fs["test_arr"].part = "test"
  /\ fs["test_arr"].run = calls
  /\ fs["preprocessor"].run = calls

(* C23: no failure of the pipeline escapes GET /train.  A request that has *)
(* been answered got the success message exactly when its run_pipeline     *)
(* returned without raising, accepted or not, and otherwise the failure     *)
(* message with the error raised; no request ends with an error escaping   *)
(* the handler.                                                            *)
C23_TrainEndpointAnswersEveryOutcome ==
  /\ http.state # "escaped"
  /\ http.state = "responded" =>
        /\ (http.response = <<"Training successful !!">>) <=>
              (calls = http.run /\ pc = "returned")
        /\ (http.response # <<"Training successful !!">>) =>
              /\ http.response[1] = "Error Occurred! "
              /\ (calls = http.run => pc = "raised" /\ http.response[2] = result)
              /\ (calls # http.run => http.response[2] = PlainErr("Exception", <<>>))

C23_Witness_RejectedRunAnsweredSuccess ==
  /\ http.state = "responded"
  /\ http.response = <<"Training successful !!">>
  /\ evArt # <<>> /\ ~evArt[1].is_model_accepted
  /\ uploads = 0

\* run n uploaded its model file to the registry key and returned
RunPublished(n) ==
  /\ calls = n /\ pc = "returned"
  /\ uploads > 0
  /\ registry = fs["model"] /\ registry.run = n

(* The artifact constructors called with keywords that are not the fields  *)
(* of the class in entity/artifact_entity.py: DataValidationArtifact with  *)
(* drift_report_file_path, ModelEvaluationArtifact without changed_rmse.   *)
MismatchedConstructorCalls ==
  {[file |-> "data_validation.py", line |-> 335],
   [file |-> "model_evaluation.py", line |-> 177]}

RaisedAtMismatchedConstructor ==
  /\ last.comp_err.root = "TypeError"
  /\ [file |-> last.comp_err.file, line |-> last.comp_err.line] \in MismatchedConstructorCalls

(* run n ended outside the case of a good run: a call into a library or    *)
(* storage raised, or the data or the scores stopped it (every error       *)
(* other than the TypeError of the two constructor calls above), or a      *)
(* schema check failed, or the new F1 did not exceed the baseline.         *)
RunNotGood(n) ==
  /\ calls = n
  /\ \/ pc = "raised" /\ ~RaisedAtMismatchedConstructor
     \/ ValidationReturned /\ FailedChecks > 0
     \/ EvaluatedResponse /\ ~last.aux.resp[1].is_model_accepted
     \/ pc = "returned" /\ evArt # <<>> /\ ~evArt[1].is_model_accepted

(* C24 as claimed, at the end of a run: a run that has ended either ended  *)
(* outside the case of a good run, or has uploaded its bundle to the       *)
(* registry key and returned normally.                                     *)
C24_Claimed_GoodRunPublishes ==
  (calls > 0 /\ pc \in {"returned", "raised"}) =>
    (RunPublished(calls) \/ RunNotGood(calls))

(* C25: the difference in an evaluation response is the new model's F1     *)
(* minus the baseline, the baseline being the production model's F1 or 0   *)
(* when none was found; is_model_accepted is true exactly when the          *)
(* difference is strictly positive; and the evaluation artifact carries    *)
(* that difference as changed_accuracy.                                    *)
C25_DifferenceIsNewMinusBaseline ==
  EvaluatedResponse =>
    /\ last.aux.resp[1].difference =
          last.aux.resp[1].trained_model_f1_score - Baseline(last.aux.resp[1])
    /\ last.aux.resp[1].is_model_accepted <=> (last.aux.resp[1].difference > 0)
    /\ (last.ok /\ last.caller = "run_pipeline") =>
          /\ evArt[1].changed_accuracy = last.aux.resp[1].difference
          /\ evArt[1].is_model_accepted <=> (evArt[1].changed_accuracy > 0)

C25_Witness_NegativeDifferenceRejected ==
  /\ EvaluatedResponse /\ last.ok /\ last.caller = "run_pipeline"
  /\ last.aux.resp[1].best_model_f1_score # <<>>
  /\ evArt[1].changed_accuracy < 0
  /\ ~evArt[1].is_model_accepted

(* C26: on one estimator instance, a predict call made while nothing is    *)
(* cached calls load_model once, and caches the loaded model unless the    *)
(* load raised, in which case nothing is cached; a predict call made with  *)
(* a model cached makes no load and keeps the cached model.  So at most    *)
(* the loads made before the first successful one are repeated.            *)
C26_LoadedOnceThenCached ==
  [][(est.made /\ est'.predicts = est.predicts + 1) =>
       IF est.loaded_model # <<>>
       THEN est'.loads = est.loads /\ est'.loaded_model = est.loaded_model
       ELSE /\ est'.loads = est.loads + 1
            /\ (est'.last = "load raised") <=> (est'.loaded_model = <<>>)
            /\ est'.loaded_model # <<>> => est'.loaded_model = <<registry>>]_vars

C26_Witness_FailedLoadRetriedThenCached ==
  /\ est.predicts = 3
  /\ est.loads = 2
  /\ est.loaded_model # <<>>
  /\ est.last = "returned"

\* the storage layer raised during the existence check of this evaluation
StorageFailedDuringCheck ==
  /\ last.op = "initiate_model_evaluation"
  /\ \E e \in last.ev : e.handler = "s3_key_path_available"

(* C27: an error raised by the storage layer during the existence check is *)
(* caught by is_model_present, which returns False; evaluate_model then    *)
(* returns its response as if no production model existed: no get-object   *)
(* request, no production F1, baseline 0, and the new model accepted       *)
(* exactly when its F1 is above 0.  The call of the stage does not raise   *)
(* because of the check: when it raises, it does so after the comparison.  *)
C27_StorageFailureInCheckReadAsAbsence ==
  StorageFailedDuringCheck =>
    /\ CatchEvent("is_model_present", [kind |-> "custom_exception"], "return False")
         \in last.ev
    /\ last.aux.checked = <<FALSE>>
    /\ last.aux.gets = 0
    /\ last.aux.resp # <<>>
    /\ last.aux.resp[1].best_model_f1_score = <<>>
    /\ Baseline(last.aux.resp[1]) = 0
    /\ last.aux.resp[1].is_model_accepted <=> (last.aux.resp[1].trained_model_f1_score > 0)
    /\ ~last.ok => (last.comp_err.file = "model_evaluation.py" /\ last.comp_err.line = 177)

C27_Witness_StorageFailureWithModelPresentAccepted ==
  /\ StorageFailedDuringCheck
  /\ last.ok
  /\ registry.kind = "model"
  /\ last.aux.resp[1].is_model_accepted
  /\ evArt # <<>>

\* the rows the trainer's F1 is computed on: x_test, y_test, taken from the
\* array loaded from transformed_test_file_path
TrainerTestSample == fs[trArt[1].transformed_test_file_path].sample

\* the rows the production model's F1 is computed on: the frame read from
\* test_file_path
EvaluationTestSample == Sample(fs[ingArt[1].test_file_path].rows)

(* C28 as claimed: when evaluation compares the new model's F1 with the    *)
(* production model's F1, both were measured on the test split that        *)
(* ingestion wrote in this run, with the same rows and labels.             *)
C28_Claimed_BothF1OnSameTestRows ==
  (EvaluatedResponse /\ last.aux.resp[1].best_model_f1_score # <<>>) =>
    /\ fs[ingArt[1].test_file_path].part = "test"
    /\ fs[ingArt[1].test_file_path].run = calls
    /\ fs[trArt[1].transformed_test_file_path].part = "test"
    /\ fs[trArt[1].transformed_test_file_path].run = calls
    /\ TrainerTestSample = EvaluationTestSample

(* C29 as claimed: the files a stage reads through the path fields of the  *)
(* ingestion artifact were written earlier in the same run by ingestion,   *)
(* with the content the field names.  When validation has read the two     *)
(* files, the file at trained_file_path holds the train split of this run  *)
(* and the file at test_file_path holds the test split of this run.        *)
C29_Claimed_FilesReadWereWrittenThisRun ==
  ValidationReturned =>
    /\ fs[ingArt[1].trained_file_path].part = "train"
    /\ fs[ingArt[1].trained_file_path].run = calls
    /\ fs[ingArt[1].test_file_path].part = "test"
    /\ fs[ingArt[1].test_file_path].run = calls

\* the validation artifact of this run reports a detected drift
DriftReported == valArt # <<>> /\ valArt[1].message = <<"Drift detected">>

====
